---------------------------- MODULE Spec2Model ----------------------------
(***************************************************************************)
(* Verification model of the giskardpy motion controller core:             *)
(*   - MonitorManager (src/src/giskardpy/goals/monitors/monitor_manager.py) *)
(*   - CleanUp        (src/src/giskardpy/tree/behaviors/cleanup.py,         *)
(*                     src/giskardpy_ros/tree/behaviors/cleanup.py)         *)
(*   - QPSolver / QPSWIFTFormatter (src/src/giskardpy/qp/qp_solver.py)      *)
(*                                                                         *)
(* numpy arrays are sequences (index 1 is numpy index 0); numpy bool and   *)
(* int 0/1 entries are the integers 0 and 1; boolean masks are sequences   *)
(* of BOOLEAN.                                                             *)
(***************************************************************************)
EXTENDS Integers, Sequences, FiniteSets, TLC

VARIABLES
    \* ---- MonitorManager ------------------------------------------------
    monitors,         \* self.monitors: list of Monitor (name, id, stay_one, crucial)
    compiled,         \* TRUE once compile_monitors has set the arrays below
    stay_one_filter,  \* self.stay_one_filter
    crucial_filter,   \* self.crucial_filter
    state,            \* self.state
    switches_state,   \* self.switches_state
    notified,         \* ids whose notify_flipped ran in the last update_state, in call order
    triggered,        \* ids whose update_substitution_values ran in the last update_state
    raw,              \* new_state given to the last update_state
    prev_state,       \* self.state as it was when the last update_state was entered
    pc,               \* episode phase: "setup", "failed" (registration raised), "ready"
    op,               \* the operation that produced the current state
    raised,           \* exception the last parse_monitors call ended with (or NoException)
    last_batch,       \* monitor_msgs given to the last parse_monitors call
    stale,            \* TRUE iff the last CleanUp.initialise found a true entry in self.state
    \* ---- QPSolver / QPSWIFTFormatter -----------------------------------
    retries_with_relaxed_constraints,  \* the formatter's retry counter
    budget,           \* the counter's value when the formatter was set up
    retries_before,   \* the counter when the last solve_and_retry was entered
    solve_calls,      \* relax_hard_constraints of each self.solve call of the last solve_and_retry
    first_attempt,    \* what the first self.solve call of the last solve_and_retry ended with
    qp_result,        \* what the last solve_and_retry ended with
    second_attempt,   \* what its second self.solve call ended with (NoCall: there was none)
    relaxed_attempts, \* number of self.solve(relax_hard_constraints=True) calls since set up
    relaxed_backend,  \* what solver_call does with the relaxed problem of the last call
    exhausted,        \* a solve_and_retry call before the last one ran out of budget
    \* ---- QPSWIFTFormatter: filters -------------------------------------
    shape,            \* the num_* attributes __init__ derives from its arguments
    weights,          \* the weights row of the last combined_problem_data, before filtering
    weight_filter,    \* self.weight_filter
    bE_filter,        \* self.bE_filter
    bA_filter_half,   \* self.bA_filter_half
    filtered,         \* self.weights, E, bE, nI_nA_I_A, nlb_nlbA_ub_ubA after apply_filters
    problem_data,     \* what the last get_problem_data returned (NoData: not called)
    \* ---- ControlLoop ---------------------------------------------------
    children,         \* self.children: the stage list, in tick order
    in_projection,    \* self.in_projection: "unset" until a mode's stages are added
    controller_active,\* self.controller_active
    debug_added,      \* self.debug_added
    trail,            \* the last two operations: name, stage list and flags before each
    \* ---- control cycle (god_map) ----------------------------------------
    time,             \* god_map.time, in sample periods
    control_cycle_counter,  \* god_map.control_cycle_counter
    counter_runs,     \* ControlCycleCounter.update calls since the last CleanUp.initialise
    cycle_op,         \* the last operation on time or control_cycle_counter
    \* ---- SyncOdometry --------------------------------------------------
    lock,             \* self.lock: the Queue(maxsize=1), oldest message first
    cb_pc,            \* the subscriber thread: "idle", or "put" between lines 44 and 47 of cb
    cb_data,          \* the message the running cb was called with (0: none)
    delivered,        \* number of cb calls so far; messages are numbered in call order
    update_pc,        \* the tick thread: "idle", or "get" while update waits in self.lock.get()
    joint_transform,  \* the message last given to self.joint.update_transform (0: none)
    reads,            \* for every message update took: the message and `delivered` at that time
    \* ---- ActionServerHandler -------------------------------------------
    goal_queue,       \* self.goal_queue: Queue(1) of goal handles, goals are numbered 1, 2, ...
    result_queue,     \* self.result_queue: Queue(1) of result messages
    goal_handle,      \* self.goal_handle (0: None)
    goal_id,          \* self.goal_id
    result_msg,       \* self._result_msg: the goal the stored result was computed for (0: None)
    exec_pc,          \* per goal, where its execute_cb call stands
    returned,         \* per goal, the result message its execute_cb call returned (0: none yet)
    handle_state,     \* per goal, the state its goal handle was put in
    tree_pc,          \* the tree thread: "idle", "working", "result_set", "sending", "raised"
    accepted,         \* the goals accept_goal took, in order
    sent,             \* per goal, how many send_* calls put a result while the tree worked on it
    \* ---- GoalCanceled --------------------------------------------------
    cancel_requested, \* per goal, goal_handle.is_cancel_requested
    exception,        \* the blackboard's 'exception': "None", "PreemptedException" or "Fault"
    gc_status,        \* how the last GoalCanceled.update ended ("none": it never ran)
    gc_pre,           \* what the last GoalCanceled.update found: cancel pending, stored exception
    preempted_stores, \* how often GoalCanceled.update stored a PreemptedException
    \* ---- RealKinSimPlugin ----------------------------------------------
    last_time,        \* self.last_time: <<>> for None, <<t>> for the time t
    observed,         \* the times update read since initialise, oldest first
    dts               \* the dt of every world.update_state call since initialise

mm_vars == <<monitors, compiled, stay_one_filter, crucial_filter, state, switches_state,
             notified, triggered, raw, prev_state, pc, op, raised, last_batch, stale>>

qp_vars == <<retries_with_relaxed_constraints, budget, retries_before, solve_calls,
             first_attempt, qp_result, second_attempt, relaxed_attempts, relaxed_backend,
             exhausted>>

ft_vars == <<shape, weights, weight_filter, bE_filter, bA_filter_half, filtered,
             problem_data>>

cl_vars == <<children, in_projection, controller_active, debug_added, trail>>

cy_vars == <<time, control_cycle_counter, counter_runs, cycle_op>>

od_vars == <<lock, cb_pc, cb_data, delivered, update_pc, joint_transform, reads>>

as_vars == <<goal_queue, result_queue, goal_handle, goal_id, result_msg, exec_pc,
             returned, handle_state, tree_pc, accepted, sent>>

gc_vars == <<cancel_requested, exception, gc_status, gc_pre, preempted_stores>>

rk_vars == <<last_time, observed, dts>>

vars == <<mm_vars, qp_vars, ft_vars, cl_vars, cy_vars, od_vars, as_vars, gc_vars, rk_vars>>

\* the variables an operation of one part leaves alone: those of the other parts
\* (CleanUp.initialise of the monitor part also writes the control cycle)
rest_mm == <<qp_vars, ft_vars, cl_vars, od_vars, as_vars, gc_vars, rk_vars>>
rest_qp == <<mm_vars, ft_vars, cl_vars, cy_vars, od_vars, as_vars, gc_vars, rk_vars>>
rest_ft == <<mm_vars, qp_vars, cl_vars, cy_vars, od_vars, as_vars, gc_vars, rk_vars>>
rest_cl == <<mm_vars, qp_vars, ft_vars, cy_vars, od_vars, as_vars, gc_vars, rk_vars>>
rest_cy == <<qp_vars, ft_vars, cl_vars, od_vars, as_vars, gc_vars, rk_vars>>
rest_as == <<mm_vars, qp_vars, ft_vars, cl_vars, cy_vars, od_vars, gc_vars, rk_vars>>
rest_gc == <<mm_vars, qp_vars, ft_vars, cl_vars, cy_vars, od_vars, rk_vars>>
rest_rk == <<mm_vars, qp_vars, ft_vars, cl_vars, cy_vars, od_vars, as_vars, gc_vars>>
rest_od == <<mm_vars, qp_vars, ft_vars, cl_vars, cy_vars, as_vars, gc_vars, rk_vars>>

-----------------------------------------------------------------------------
(* Bounds of the model *)

\* largest number of monitors registered in one episode
MaxMonitors == 2

\* longest monitor_msgs list given to one parse_monitors call
MaxBatch == 2

\* how far below zero the retry counter is followed
MaxOverdraft == 2

\* how far time (in sample periods) and the cycle counter are followed
MaxTicks == 3

\* most odometry messages delivered
MaxMsgs == 5

\* most goals handed to the action server
MaxGoals == 2

\* most non-slack variables of a QP
MaxNonSlack == 1

\* most equality-slack variables, and most inequality-slack variables, of a QP
MaxSlack == 1

\* most equality rows, and most inequality rows, that are paired with no slack variable
MaxPlainRows == 1

-----------------------------------------------------------------------------
(* numpy helpers *)

RECURSIVE TrueIndices(_, _)
\* positions k, k+1, ... at which a boolean mask is True, ascending
TrueIndices(filter, k) ==
    IF k > Len(filter) THEN <<>>
    ELSE (IF filter[k] THEN <<k>> ELSE <<>>) \o TrueIndices(filter, k + 1)

\* arr[filter] with a boolean mask
BoolIndex(arr, filter) ==
    LET idx == TrueIndices(filter, 1)
    IN  [j \in 1..Len(idx) |-> arr[idx[j]]]

\* arr[filter] = vals with a boolean mask; the result is cast to arr's bool dtype
BoolAssign(arr, filter, vals) ==
    LET idx == TrueIndices(filter, 1)
    IN  [i \in 1..Len(arr) |->
            IF filter[i]
            THEN (IF vals[CHOOSE j \in 1..Len(idx) : idx[j] = i] # 0 THEN 1 ELSE 0)
            ELSE arr[i]]

\* a | b on 0/1 entries
BitOr(a, b) == [i \in 1..Len(a) |-> IF a[i] # 0 \/ b[i] # 0 THEN 1 ELSE 0]

\* np.logical_xor(a, b)
LogicalXor(a, b) == [i \in 1..Len(a) |-> (a[i] # 0) # (b[i] # 0)]

\* np.any(a) on a boolean array
NpAny(a) == \E i \in 1..Len(a) : a[i]

\* np.all(a) on a 0/1 array
NpAll(a) == \A i \in 1..Len(a) : a[i] # 0

\* np.zeros_like(a)
ZerosLike(a) == [i \in 1..Len(a) |-> 0]

\* np.zeros(k), np.ones(k, dtype=bool)
Zeros(k) == [i \in 1..k |-> 0]
Ones(k) == [i \in 1..k |-> TRUE]

\* -a on a vector
Neg(a) == [i \in 1..Len(a) |-> 0 - a[i]]

\* how a slice bound i (negative: counted from the end) lands in an array of length len
SliceBound(len, i) ==
    IF i < 0 THEN (IF len + i < 0 THEN 0 ELSE len + i)
    ELSE (IF i > len THEN len ELSE i)

\* a[:stop]
SliceTo(a, stop) == SubSeq(a, 1, SliceBound(Len(a), stop))

\* a[start:]
SliceFrom(a, start) == SubSeq(a, SliceBound(Len(a), start) + 1, Len(a))

\* a[:stop] = value with one value for every place of the slice
FillTo(a, stop, value) ==
    [i \in 1..Len(a) |-> IF i <= SliceBound(Len(a), stop) THEN value ELSE a[i]]

\* a[:stop] = part
AssignTo(a, stop, part) ==
    [i \in 1..Len(a) |-> IF i <= SliceBound(Len(a), stop) THEN part[i] ELSE a[i]]

\* a[start:] = part
AssignFrom(a, start, part) ==
    LET from == SliceBound(Len(a), start)
    IN  [i \in 1..Len(a) |-> IF i > from THEN part[i - from] ELSE a[i]]

\* m[:, filter] on a matrix kept as a list of rows
BoolIndexColumns(m, filter) == [r \in 1..Len(m) |-> BoolIndex(m[r], filter)]

-----------------------------------------------------------------------------
(* Monitor registration: add_monitor, parse_monitors *)

\* names a monitor message can carry
MonitorNames == {"a", "b"}

\* self.allowed_monitor_types: the classes found in giskardpy.goals.monitors
allowed_monitor_types == {"ExpressionMonitor", "LocalMinimumReached"}

\* parameter_value_pair of a message: `fails` is the class of the exception that
\* json_to_kwargs / the constructor raises on it ("no": the monitor is built
\* with the given stay_one and crucial)
OkParams == [fails : {"no"}, stay_one : BOOLEAN, crucial : BOOLEAN]
BadParams == [fails : {"TypeError", "UnknownGroupException"},
              stay_one : {FALSE}, crucial : {FALSE}]

\* giskard_msgs.Monitor; the parameters of a message of unknown type are never
\* decoded, so one value stands for them
MonitorMsgs ==
    [name : MonitorNames, type : allowed_monitor_types, params : OkParams \cup BadParams]
    \cup [name : MonitorNames, type : {"NoSuchMonitor"},
          params : {[fails |-> "no", stay_one |-> FALSE, crucial |-> FALSE]}]

NoException == [cls |-> "None", names |-> ""]

\* isinstance(e, GiskardException) for the classes above
IsGiskardException(cls) ==
    cls \in {"GiskardException", "UnknownGroupException",
             "UnknownConstraintException", "ConstraintInitalizationException"}

\* C(monitor_msg.name, **params): a Monitor that has no id yet
NewMonitor(name, params) ==
    [name |-> name, id |-> -1, stay_one |-> params.stay_one, crucial |-> params.crucial]

\* set_id(len(self.monitors)): the id taken after the append without the -1
SetId_OffByOne(monitor, n) == [monitor EXCEPT !.id = n]

\* monitor.set_id(len(self.monitors) - 1), with n = len(self.monitors)
SetId(monitor, n) == [monitor EXCEPT !.id = n - 1]

\* add_monitor on the list mons
AddMonitorTo(mons, monitor) ==
    LET appended == Append(mons, monitor)
    IN  [appended EXCEPT ![Len(appended)] = SetId(@, Len(appended))]

\* a lookup that never raises (a .get with a default class)
TypeLookupFails_Never(type) == FALSE

\* self.allowed_monitor_types[monitor_msg.type] raises KeyError
TypeLookupFails(type) == type \notin allowed_monitor_types

\* the exception raised on KeyError
UnknownTypeError(type) == [cls |-> "UnknownConstraintException", names |-> type]

\* an except clause that re-raises whatever it caught
InitError_Reraise(class_name, e) == e

\* the exception the second try block raises for e, with C.__name__ = class_name
InitError(class_name, e) ==
    IF ~IsGiskardException(e.cls)
    THEN [cls |-> "ConstraintInitalizationException", names |-> class_name]
    ELSE e

RECURSIVE ParseFrom(_, _, _)
\* the for loop of parse_monitors from message k on: the monitor list it leaves
\* and the exception it ends with
ParseFrom(mons, msgs, k) ==
    IF k > Len(msgs) THEN [monitors |-> mons, raised |-> NoException]
    ELSE LET msg == msgs[k]
         IN  IF TypeLookupFails(msg.type)
             THEN [monitors |-> mons, raised |-> UnknownTypeError(msg.type)]
             ELSE IF msg.params.fails # "no"
             THEN [monitors |-> mons,
                   raised |-> InitError(msg.type, [cls |-> msg.params.fails, names |-> ""])]
             ELSE ParseFrom(AddMonitorTo(mons, NewMonitor(msg.name, msg.params)), msgs, k + 1)

-----------------------------------------------------------------------------
(* Monitor evaluation: compile_monitors, update_state, crucial_monitors_satisfied *)

\* flipped_to_one(a, b)
FlippedToOne(a, b) ==
    [i \in 1..Len(a) |-> (~(a[i] # 0)) /\ ((a[i] # 0) \/ (b[i] # 0))]

\* trigger_monitor_flips: the monitors whose update_substitution_values runs
TriggerMonitorFlips(mons, filter, flips) ==
    LET flipped_monitors == BoolIndex(BoolIndex(mons, filter), flips)
    IN  [j \in 1..Len(flipped_monitors) |-> flipped_monitors[j].id]

\* line 66 without the |: the switches take the new raw values
NextSwitches_Overwrite(switches, filter, new_state) ==
    BoolAssign(switches, filter, BoolIndex(new_state, filter))

\* line 66 without the stay_one mask: every monitor latches
NextSwitches_LatchAll(switches, filter, new_state) == BitOr(switches, new_state)

\* self.switches_state after line 66
NextSwitches(switches, filter, new_state) ==
    LET filtered_switches == BoolIndex(switches, filter)
        filtered_new_state == BoolIndex(new_state, filter)
    IN  BoolAssign(switches, filter, BitOr(filtered_switches, filtered_new_state))

\* next_state = self.switches_state | new_state
NextState(switches, new_state) == BitOr(switches, new_state)

\* only the flips to one are seen
AnyFlips_RisingOnly(old_state, next_state) == FlippedToOne(old_state, next_state)

\* any_flips = np.logical_xor(self.state, next_state)
AnyFlips(old_state, next_state) == LogicalXor(old_state, next_state)

\* the notify_flipped calls of the enumerate loop, in order
NotifyFlipped(mons, any_flips) ==
    LET idx == TrueIndices(any_flips, 1)
    IN  [j \in 1..Len(idx) |-> mons[idx[j]].id]

\* np.all(self.state): the crucial mask is forgotten
crucial_monitors_satisfied_NoMask == NpAll(state)

\* np.all(self.state[self.crucial_filter])
crucial_monitors_satisfied == NpAll(BoolIndex(state, crucial_filter))

-----------------------------------------------------------------------------
(* QPSolver.solve_and_retry and the relaxed path of QPSWIFTFormatter *)

\* QPSolver.retries_with_relaxed_constraints
retries_default == 5

\* solution vectors the backend can return
Solutions == [1..2 -> {-1, 0, 1}]

\* exception classes a solve call can end with
SolveErrors == {"QPSolverException", "InfeasibleException",
                "HardConstraintsViolatedException", "RuntimeError"}

\* isinstance(e, QPSolverException)
IsQPSolverException(cls) ==
    cls \in {"QPSolverException", "InfeasibleException", "HardConstraintsViolatedException"}

\* isinstance(e, InfeasibleException)
IsInfeasibleException(cls) ==
    cls \in {"InfeasibleException", "HardConstraintsViolatedException"}

\* isinstance(e, HardConstraintsViolatedException)
IsHardConstraintsViolated(cls) == cls = "HardConstraintsViolatedException"

\* the end of a call: cls = "None" for a return of value, else the class of the
\* exception raised and the self.solve call (1 or 2) that created the exception object
Returned(xdot) == [cls |-> "None", attempt |-> 0, value |-> xdot]
Raised(cls, attempt) == [cls |-> cls, attempt |-> attempt, value |-> <<>>]
NoCall == [cls |-> "None", attempt |-> 0, value |-> <<>>]

\* what the backend does with a (non-relaxed) problem: a solution or an exception
BackendOutcomes ==
    {Returned(x) : x \in Solutions} \cup {Raised(c, 1) : c \in SolveErrors}

\* what the backend does with the relaxed problem, were it called on it (line 192)
RelaxedBackendOutcomes ==
    {Returned(x) : x \in Solutions} \cup {Raised(c, 2) : c \in SolveErrors}

\* the ways a second self.solve call of some QPSolver subclass can end
SecondOutcomes == RelaxedBackendOutcomes \cup {Raised("NameError", 2)}

\* the problem's bounds before relaxation, as relaxed_problem_data_to_qpSWIFT_format
\* names them: ub, and nlb (the negated lower bound), one entry per variable
OriginalBounds == [nlb |-> <<1, 0>>, ub |-> <<1, 0>>]

\* -nlb <= xdot <= ub in every variable
WithinOriginalBounds(xdot) ==
    \A i \in DOMAIN xdot :
        /\ 0 - OriginalBounds.nlb[i] <= xdot[i]
        /\ xdot[i] <= OriginalBounds.ub[i]

\* a budget test that lets a counter of zero pass
RelaxedProblemData_BelowZero(retries) ==
    LET decremented == retries - 1
    IN  IF decremented < 0
        THEN [retries |-> decremented,
              end |-> Raised("HardConstraintsViolatedException", 2)]
        ELSE [retries |-> decremented, end |-> Raised("NameError", 2)]

\* a formatter whose budget is filled up again when it has run out
RelaxedProblemData_Replenished(retries) ==
    LET decremented == retries - 1
    IN  IF decremented <= 0
        THEN [retries |-> retries_default,
              end |-> Raised("HardConstraintsViolatedException", 2)]
        ELSE [retries |-> decremented, end |-> Raised("NameError", 2)]

\* relaxed_problem_data_to_qpSWIFT_format entered with the counter at `retries`:
\* the counter it leaves and how it ends. Line 182 reads nlb, which is neither a
\* parameter nor a local nor a global, so every call that passes the budget test
\* ends with NameError there.
RelaxedProblemData(retries) ==
    LET decremented == retries - 1
    IN  IF decremented <= 0
        THEN [retries |-> decremented,
              end |-> Raised("HardConstraintsViolatedException", 2)]
        ELSE [retries |-> decremented, end |-> Raised("NameError", 2)]

\* lines 196-199: the variables whose weight is multiplied by retry_weight_factor
\* in a relaxed call that ended as `end` and whose solver_call gave xdot_full; the
\* lines are run only by a call that gets past line 182 and returns
Reweighted(end, xdot_full) ==
    IF end.cls = "None"
    THEN {i \in DOMAIN xdot_full :
             \/ OriginalBounds.ub[i] < xdot_full[i]
             \/ OriginalBounds.nlb[i] < xdot_full[i]}
    ELSE {}

\* the relaxed call ended at line 181, before any solver_call
OutOfRetries(end) == end = Raised("HardConstraintsViolatedException", 2)

\* solve(substitutions, relax_hard_constraints): the counter it leaves and how it ends;
\* `backend` is what solver_call does with the non-relaxed problem
Solve(relax_hard_constraints, retries, backend) ==
    IF relax_hard_constraints
    THEN RelaxedProblemData(retries)
    ELSE [retries |-> retries, end |-> backend]

\* a bare except: every exception of the first attempt is retried
CaughtByRetry_Any(first) == first.cls # "None"

\* except QPSolverException as e: is the first attempt's end caught
CaughtByRetry(first) == first.cls # "None" /\ IsQPSolverException(first.cls)

\* an inner except clause that re-raises what it caught
AfterRelaxed_RaiseSecond(e, second) == second

\* the inner except clause: what solve_and_retry ends with, given the exception e of
\* the first attempt and the end of the second
AfterRelaxed(e, second) ==
    IF second.cls # "None" /\ IsInfeasibleException(second.cls)
    THEN (IF IsHardConstraintsViolated(second.cls) THEN second ELSE e)
    ELSE second

\* solve_and_retry: the self.solve calls made, the counter left, the end of the call
SolveAndRetryResult(retries, backend) ==
    LET first == Solve(FALSE, retries, backend)
    IN  IF CaughtByRetry(first.end)
        THEN LET second == Solve(TRUE, first.retries, backend)
             IN  [calls |-> <<FALSE, TRUE>>, retries |-> second.retries,
                  first |-> first.end, second |-> second.end,
                  end |-> AfterRelaxed(first.end, second.end)]
        ELSE [calls |-> <<FALSE>>, retries |-> first.retries,
              first |-> first.end, second |-> NoCall, end |-> first.end]

\* solve_and_retry of any QPSolver subclass, given how its two self.solve calls end
\* (split_and_filter_results and solver_call are abstract in QPSolver)
SolveAndRetryEnds(first, second) ==
    IF CaughtByRetry(first)
    THEN [calls |-> <<FALSE, TRUE>>, first |-> first, second |-> second,
          end |-> AfterRelaxed(first, second)]
    ELSE [calls |-> <<FALSE>>, first |-> first, second |-> NoCall, end |-> first]

-----------------------------------------------------------------------------
(* ControlLoop: the stage list and its mutators *)

\* first position of child in the list, 0 if it is not in it
IndexOf(list, child) ==
    IF \E i \in 1..Len(list) : list[i] = child
    THEN CHOOSE i \in 1..Len(list) :
            list[i] = child /\ \A j \in 1..(i - 1) : list[j] # child
    ELSE 0

\* add_child(child): the child becomes the last stage
AddChild(list, child) == Append(list, child)

\* insert_child(child, index): the child is put in front of the stage at that
\* index, which counts from 0 and, if negative, from the end
InsertChild(list, child, index) ==
    LET at == SliceBound(Len(list), index)
    IN  SubSeq(list, 1, at) \o <<child>> \o SubSeq(list, at + 1, Len(list))

\* remove_child(child): the child's first occurrence is taken out; a child that is
\* not in the list leaves it as it is
RemoveChild(list, child) ==
    LET at == IndexOf(list, child)
    IN  IF at = 0 THEN list
        ELSE SubSeq(list, 1, at - 1) \o SubSeq(list, at + 1, Len(list))

\* insert_behind(node, left_sibling): the node is put right behind the sibling; a
\* sibling that is not in the list leaves it as it is
InsertBehind(list, node, left_sibling) ==
    LET at == IndexOf(list, left_sibling)
    IN  IF at = 0 THEN list ELSE InsertChild(list, node, at)

\* toggle_on(attribute) / toggle_off(attribute): the decorated method runs only
\* if the attribute is not yet at the value the toggle sets
ToggleRuns(attribute, target) == attribute # target

\* __init__(log_traj) with collision checking enabled or not
ControlLoopInit(log_traj, collision_checking) ==
    LET c1 == AddChild(<<>>, "goal_canceled")
        c2 == IF collision_checking THEN AddChild(c1, "collision_checker") ELSE c1
        c3 == AddChild(c2, "EvaluateMonitors")
        c4 == AddChild(c3, "check_monitors")
        c5 == AddChild(c4, "controller_plugin")
        c6 == AddChild(c5, "ControlCycleCounter")
        c7 == IF log_traj THEN AddChild(c6, "log_traj") ELSE c6
    IN  AddChild(c7, "publish_state")

\* remove_projection_behaviors
remove_projection_behaviors(list) ==
    RemoveChild(RemoveChild(RemoveChild(list, "projection_synchronization"),
                            "time"),
                "kin_sim")

\* remove_closed_loop_behaviors
remove_closed_loop_behaviors(list) ==
    RemoveChild(RemoveChild(RemoveChild(RemoveChild(list,
                                                    "closed_loop_synchronization"),
                                        "ros_time"),
                            "real_kin_sim"),
                "send_controls")

\* projection stages of which the synchronization becomes the first stage
add_projection_behaviors_SyncFirst(list) ==
    InsertChild(InsertChild(InsertChild(list, "projection_synchronization", 0),
                            "time", -2),
                "kin_sim", -2)

\* add_projection_behaviors (the stage list it leaves)
add_projection_behaviors(list) ==
    InsertChild(InsertChild(InsertChild(list, "projection_synchronization", 1),
                            "time", -2),
                "kin_sim", -2)

\* add_closed_loop_behaviors (the stage list it leaves)
add_closed_loop_behaviors(list) ==
    InsertChild(InsertChild(InsertChild(InsertChild(list,
                                                    "closed_loop_synchronization", 1),
                                        "ros_time", -2),
                            "real_kin_sim", -2),
                "send_controls", -2)

\* the body of switch_to_projection
switch_to_projection(list) ==
    add_projection_behaviors(remove_closed_loop_behaviors(list))

\* the body of switch_to_closed_loop
switch_to_closed_loop(list) ==
    add_closed_loop_behaviors(remove_projection_behaviors(list))

\* the body of add_qp_controller
add_qp_controller(list) ==
    InsertBehind(InsertBehind(list, "controller_plugin", "check_monitors"),
                 "kin_sim", "time")

\* the body of remove_qp_controller
remove_qp_controller(list) ==
    RemoveChild(RemoveChild(list, "controller_plugin"), "kin_sim")

\* the last two operations, newest last
Remember(name) ==
    LET entry == [op |-> name, children |-> children, in_projection |-> in_projection,
                  controller_active |-> controller_active]
    IN  IF Len(trail) < 2 THEN Append(trail, entry) ELSE <<trail[2], entry>>

\* a control loop that no specification but SpecLoop runs
LoopIdle ==
    /\ children = ControlLoopInit(TRUE, FALSE)
    /\ in_projection = "unset"
    /\ controller_active = TRUE
    /\ debug_added = FALSE
    /\ trail = <<>>

-----------------------------------------------------------------------------
(* QPSWIFTFormatter: the combined matrix and its filters *)

\* the shapes __init__ can be given: every slack variable has its constraint row
Shapes ==
    {sh \in [num_non_slack_variables : 1..MaxNonSlack,
             num_eq_slack_variables : 0..MaxSlack,
             num_neq_slack_variables : 0..MaxSlack,
             num_eq_constraints : 0..(MaxSlack + MaxPlainRows),
             num_neq_constraints : 0..(MaxSlack + MaxPlainRows)] :
        /\ sh.num_eq_constraints >= sh.num_eq_slack_variables
        /\ sh.num_eq_constraints <= sh.num_eq_slack_variables + MaxPlainRows
        /\ sh.num_neq_constraints >= sh.num_neq_slack_variables
        /\ sh.num_neq_constraints <= sh.num_neq_slack_variables + MaxPlainRows}

num_slack_variables(sh) == sh.num_eq_slack_variables + sh.num_neq_slack_variables

num_free_variable_constraints(sh) ==
    sh.num_non_slack_variables + num_slack_variables(sh)

\* the arguments of __init__ evaluated at one tick: every entry tells its matrix,
\* row and column; w is the weight vector
Problem(sh, w) ==
    LET n == num_free_variable_constraints(sh)
    IN  [weights |-> w,
         lb |-> [i \in 1..n |-> 0 - (10 + i)],
         ub |-> [i \in 1..n |-> 20 + i],
         E |-> [r \in 1..sh.num_eq_constraints |->
                  [c \in 1..sh.num_non_slack_variables |-> 100 + 10 * r + c]],
         E_slack |-> [r \in 1..sh.num_eq_constraints |->
                        [c \in 1..sh.num_eq_slack_variables |-> 150 + 10 * r + c]],
         bE |-> [r \in 1..sh.num_eq_constraints |-> 30 + r],
         A |-> [r \in 1..sh.num_neq_constraints |->
                  [c \in 1..sh.num_non_slack_variables |-> 200 + 10 * r + c]],
         A_slack |-> [r \in 1..sh.num_neq_constraints |->
                        [c \in 1..sh.num_neq_slack_variables |-> 250 + 10 * r + c]],
         lbA |-> [r \in 1..sh.num_neq_constraints |-> 0 - (40 + r)],
         ubA |-> [r \in 1..sh.num_neq_constraints |-> 50 + r]]

\* the columns E_slice and E_slack_slice cover, one row per equality constraint
E_E_slack(sh, p) ==
    [r \in 1..sh.num_eq_constraints |->
        p.E[r] \o p.E_slack[r] \o Zeros(sh.num_neq_slack_variables)]

\* the columns A_slice and A_slack_slice cover, one row per inequality constraint
A_A_slack(sh, p) ==
    [r \in 1..sh.num_neq_constraints |->
        p.A[r] \o Zeros(sh.num_eq_slack_variables) \o p.A_slack[r]]

\* row i of cas.eye(n)
EyeRow(n, i) == [c \in 1..n |-> IF c = i THEN 1 ELSE 0]

\* what qp_setup_function returns: the combined matrix of __init__, a list of rows
\* with the right-hand side as last column
CombinedProblemData(sh, p) ==
    LET n == num_free_variable_constraints(sh)
        EE == E_E_slack(sh, p)
        AA == A_A_slack(sh, p)
    IN  <<p.weights \o <<0>>>>
        \o [r \in 1..sh.num_eq_constraints |-> EE[r] \o <<p.bE[r]>>]
        \o [i \in 1..n |-> Neg(EyeRow(n, i)) \o <<0 - p.lb[i]>>]
        \o [r \in 1..sh.num_neq_constraints |-> Neg(AA[r]) \o <<0 - p.lbA[r]>>]
        \o [i \in 1..n |-> EyeRow(n, i) \o <<p.ub[i]>>]
        \o [r \in 1..sh.num_neq_constraints |-> AA[r] \o <<p.ubA[r]>>]

\* m[rows, cols] = block, rows and cols given as the 0-based bounds <<from, to>> of
\* a slice, to excluded
SetBlock(m, rows, cols, block) ==
    [r \in 1..Len(m) |->
        [c \in 1..Len(m[r]) |->
            IF rows[1] < r /\ r <= rows[2] /\ cols[1] < c /\ c <= cols[2]
            THEN block[r - rows[1]][c - cols[1]]
            ELSE m[r][c]]]

\* m[rows, -1] = column
SetLastColumn(m, rows, column) ==
    [r \in 1..Len(m) |->
        IF rows[1] < r /\ r <= rows[2]
        THEN [m[r] EXCEPT ![Len(m[r])] = column[r - rows[1]]]
        ELSE m[r]]

\* slices whose identity block comes straight after the negated identity block
FormatterSlices_IdentityFirst(sh) ==
    LET n == num_free_variable_constraints(sh)
        num_rows == 1 + sh.num_eq_constraints + sh.num_neq_constraints * 2 + n * 2
        num_columns == n + 1
        offset1 == 1
        offset2 == offset1 + sh.num_eq_constraints
        offset3 == offset2 + n
        offset4 == offset3 + n
        offset5 == offset4 + sh.num_neq_constraints
        E_columns == sh.num_non_slack_variables
        A_columns == sh.num_non_slack_variables
    IN  [num_rows |-> num_rows, num_columns |-> num_columns,
         E_rows |-> <<offset1, offset1 + sh.num_eq_constraints>>,
         E_cols |-> <<0, SliceBound(num_columns, E_columns)>>,
         E_slack_cols |-> <<SliceBound(num_columns, sh.num_non_slack_variables),
                            SliceBound(num_columns,
                                       E_columns + sh.num_eq_slack_variables)>>,
         nI_rows |-> <<offset2, offset2 + n>>,
         nI_cols |-> <<0, SliceBound(num_columns, n)>>,
         nA_rows |-> <<offset4, offset4 + sh.num_neq_constraints>>,
         nA_cols |-> <<0, SliceBound(num_columns, A_columns)>>,
         nA_slack_cols |-> <<SliceBound(num_columns, sh.num_non_slack_variables
                                                     + sh.num_eq_slack_variables),
                             SliceBound(num_columns, -1)>>,
         I_rows |-> <<offset3, offset3 + n>>,
         A_rows |-> <<offset5, num_rows>>]

\* the slices of __init__, lines 101-127: rows and columns as 0-based bounds
\* <<from, to>>, to excluded; E and A have one column per non-slack variable
FormatterSlices(sh) ==
    LET n == num_free_variable_constraints(sh)
        num_rows == 1 + sh.num_eq_constraints + sh.num_neq_constraints * 2 + n * 2
        num_columns == n + 1
        offset1 == 1
        offset2 == offset1 + sh.num_eq_constraints
        offset3 == offset2 + n
        offset4 == offset3 + sh.num_neq_constraints
        offset5 == offset4 + n
        E_columns == sh.num_non_slack_variables
        A_columns == sh.num_non_slack_variables
    IN  [num_rows |-> num_rows, num_columns |-> num_columns,
         E_rows |-> <<offset1, offset1 + sh.num_eq_constraints>>,
         E_cols |-> <<0, SliceBound(num_columns, E_columns)>>,
         E_slack_cols |-> <<SliceBound(num_columns, sh.num_non_slack_variables),
                            SliceBound(num_columns,
                                       E_columns + sh.num_eq_slack_variables)>>,
         nI_rows |-> <<offset2, offset2 + n>>,
         nI_cols |-> <<0, SliceBound(num_columns, n)>>,
         nA_rows |-> <<offset3, offset3 + sh.num_neq_constraints>>,
         nA_cols |-> <<0, SliceBound(num_columns, A_columns)>>,
         nA_slack_cols |-> <<SliceBound(num_columns, sh.num_non_slack_variables
                                                     + sh.num_eq_slack_variables),
                             SliceBound(num_columns, -1)>>,
         I_rows |-> <<offset4, offset4 + n>>,
         A_rows |-> <<offset5, num_rows>>]

\* __init__, lines 99-149: the zero matrix filled slice by slice
CombinedBySlices(sh, p) ==
    LET n == num_free_variable_constraints(sh)
        sl == FormatterSlices(sh)
        eye == [i \in 1..n |-> EyeRow(n, i)]
        m0 == [r \in 1..sl.num_rows |-> Zeros(sl.num_columns)]
        m1 == SetBlock(m0, <<0, 1>>, <<0, SliceBound(sl.num_columns, -1)>>,
                       <<p.weights>>)
        m2 == IF sh.num_eq_constraints > 0
              THEN SetLastColumn(SetBlock(SetBlock(m1, sl.E_rows, sl.E_cols, p.E),
                                          sl.E_rows, sl.E_slack_cols, p.E_slack),
                                 sl.E_rows, p.bE)
              ELSE m1
        m3 == SetLastColumn(SetBlock(m2, sl.nI_rows, sl.nI_cols,
                                     [i \in 1..n |-> Neg(eye[i])]),
                            sl.nI_rows, Neg(p.lb))
        m4 == IF sh.num_neq_constraints > 0
              THEN SetLastColumn(
                       SetBlock(SetBlock(m3, sl.nA_rows, sl.nA_cols,
                                         [r \in 1..Len(p.A) |-> Neg(p.A[r])]),
                                sl.nA_rows, sl.nA_slack_cols,
                                [r \in 1..Len(p.A_slack) |-> Neg(p.A_slack[r])]),
                       sl.nA_rows, Neg(p.lbA))
              ELSE m3
        m5 == SetLastColumn(SetBlock(m4, sl.I_rows, sl.nI_cols, eye), sl.I_rows, p.ub)
    IN  IF sh.num_neq_constraints > 0
        THEN SetLastColumn(SetBlock(SetBlock(m5, sl.A_rows, sl.nA_cols, p.A),
                                    sl.A_rows, sl.nA_slack_cols, p.A_slack),
                           sl.A_rows, p.ubA)
        ELSE m5

\* the slices split_and_filter_results takes of the combined matrix
SplitResults(sh, combined_problem_data) ==
    LET E_rows == SubSeq(combined_problem_data, 2, 1 + sh.num_eq_constraints)
        rest == SliceFrom(combined_problem_data, 1 + sh.num_eq_constraints)
    IN  [weights |-> SliceTo(combined_problem_data[1], -1),
         E |-> [r \in 1..Len(E_rows) |-> SliceTo(E_rows[r], -1)],
         bE |-> [r \in 1..Len(E_rows) |-> E_rows[r][Len(E_rows[r])]],
         nI_nA_I_A |-> [r \in 1..Len(rest) |-> SliceTo(rest[r], -1)],
         nlb_nlbA_ub_ubA |-> [r \in 1..Len(rest) |-> rest[r][Len(rest[r])]]]

\* update_filters on the split data
update_filters(sh, self) ==
    LET nonzero == [i \in 1..Len(self.weights) |-> self.weights[i] # 0]
        wf == FillTo(nonzero, 0 - num_slack_variables(sh), TRUE)
        slack_part == SliceFrom(wf, 0 - (sh.num_eq_slack_variables
                                         + sh.num_neq_slack_variables))
        bE_part == SliceTo(slack_part, sh.num_eq_slack_variables)
        bA_part == SliceFrom(slack_part, sh.num_eq_slack_variables)
        bE_ones == Ones(Len(self.E))
        bE == IF Len(bE_part) > 0
              THEN AssignFrom(bE_ones, 0 - Len(bE_part), bE_part)
              ELSE bE_ones
        half_ones == Ones(Len(self.nI_nA_I_A) \div 2)
        half_slack == IF Len(bA_part) > 0
                      THEN AssignFrom(half_ones, 0 - Len(bA_part), bA_part)
                      ELSE half_ones
        half == AssignTo(half_slack, Len(wf), wf)
    IN  [weight_filter |-> wf, bE_filter |-> bE, bA_filter_half |-> half,
         bA_filter |-> half \o half]

\* an apply_filters that leaves the right-hand sides of the stacked block unfiltered
apply_filters_UnfilteredBounds(self, f) ==
    [weights |-> BoolIndex(self.weights, f.weight_filter),
     g |-> Zeros(Len(BoolIndex(self.weights, f.weight_filter))),
     E |-> BoolIndexColumns(BoolIndex(self.E, f.bE_filter), f.weight_filter),
     bE |-> BoolIndex(self.bE, f.bE_filter),
     nI_nA_I_A |-> BoolIndex(BoolIndexColumns(self.nI_nA_I_A, f.weight_filter),
                             f.bA_filter),
     nlb_nlbA_ub_ubA |-> self.nlb_nlbA_ub_ubA]

\* apply_filters on the split data with the filters f
apply_filters(self, f) ==
    [weights |-> BoolIndex(self.weights, f.weight_filter),
     g |-> Zeros(Len(BoolIndex(self.weights, f.weight_filter))),
     E |-> BoolIndexColumns(BoolIndex(self.E, f.bE_filter), f.weight_filter),
     bE |-> BoolIndex(self.bE, f.bE_filter),
     nI_nA_I_A |-> BoolIndex(BoolIndexColumns(self.nI_nA_I_A, f.weight_filter),
                             f.bA_filter),
     nlb_nlbA_ub_ubA |-> BoolIndex(self.nlb_nlbA_ub_ubA, f.bA_filter)]

\* a get_problem_data that splits the rows at the length of weight_filter
get_problem_data_UnfilteredLength(self, wf, bE, half) ==
    LET I_length == Len(wf)
        A_half == Len(self.nI_nA_I_A) \div 2
        I_A == SliceFrom(self.nI_nA_I_A, A_half)
        nlb_nlbA == SliceTo(self.nlb_nlbA_ub_ubA, A_half)
        ub_ubA == SliceFrom(self.nlb_nlbA_ub_ubA, A_half)
    IN  [weights |-> self.weights, g |-> self.g,
         lb |-> Neg(SliceTo(nlb_nlbA, I_length)), ub |-> SliceTo(ub_ubA, I_length),
         E |-> self.E, bE |-> self.bE,
         A |-> SliceFrom(I_A, I_length),
         lbA |-> Neg(SliceFrom(nlb_nlbA, I_length)),
         ubA |-> SliceFrom(ub_ubA, I_length),
         weight_filter |-> wf, bE_filter |-> bE,
         bA_filter |-> SliceFrom(half, Len(wf))]

\* get_problem_data on the filtered data and the filters of the last solve
get_problem_data(self, wf, bE, half) ==
    LET I_length == Len(self.weights)
        A_half == Len(self.nI_nA_I_A) \div 2
        I_A == SliceFrom(self.nI_nA_I_A, A_half)
        nlb_nlbA == SliceTo(self.nlb_nlbA_ub_ubA, A_half)
        ub_ubA == SliceFrom(self.nlb_nlbA_ub_ubA, A_half)
    IN  [weights |-> self.weights, g |-> self.g,
         lb |-> Neg(SliceTo(nlb_nlbA, I_length)), ub |-> SliceTo(ub_ubA, I_length),
         E |-> self.E, bE |-> self.bE,
         A |-> SliceFrom(I_A, I_length),
         lbA |-> Neg(SliceFrom(nlb_nlbA, I_length)),
         ubA |-> SliceFrom(ub_ubA, I_length),
         weight_filter |-> wf, bE_filter |-> bE,
         bA_filter |-> SliceFrom(half, Len(wf))]

\* nothing solved, nothing fetched
NoData == [weights |-> <<>>]

\* a formatter that no specification but SpecFilter runs
FilterIdle ==
    /\ shape = [num_non_slack_variables |-> 1, num_eq_slack_variables |-> 0,
                num_neq_slack_variables |-> 0, num_eq_constraints |-> 0,
                num_neq_constraints |-> 0]
    /\ weights = <<>>
    /\ weight_filter = <<>>
    /\ bE_filter = <<>>
    /\ bA_filter_half = <<>>
    /\ filtered = NoData
    /\ problem_data = NoData

QPIdle ==
    /\ retries_with_relaxed_constraints = retries_default
    /\ budget = retries_default
    /\ retries_before = retries_default
    /\ solve_calls = <<>>
    /\ first_attempt = NoCall
    /\ qp_result = NoCall
    /\ second_attempt = NoCall
    /\ relaxed_attempts = 0
    /\ relaxed_backend = NoCall
    /\ exhausted = FALSE

-----------------------------------------------------------------------------
(* Episode protocol *)

\* registration happens after cleanup and before compile_monitors
InSetup == pc = "setup"

\* monitors are evaluated only after compile_monitors
InControlLoop == pc = "ready"

\* MonitorManager.__init__: a fresh manager has an empty list and no arrays
MonitorManagerInit ==
    [monitors |-> <<>>, compiled |-> FALSE, stay_one_filter |-> <<>>,
     crucial_filter |-> <<>>, state |-> <<>>, switches_state |-> <<>>]

\* MonitorManager.reset(): clears all monitor state and the registry
MonitorManagerReset ==
    [monitors |-> <<>>, compiled |-> FALSE, stay_one_filter |-> <<>>,
     crucial_filter |-> <<>>, state |-> <<>>, switches_state |-> <<>>]

\* SyncOdometry.__init__: an empty queue, no callback running, nothing read
OdometryIdle ==
    /\ lock = <<>>
    /\ cb_pc = "idle"
    /\ cb_data = 0
    /\ delivered = 0
    /\ update_pc = "idle"
    /\ joint_transform = 0
    /\ reads = <<>>

Goals == 1..MaxGoals

\* ActionServerHandler.__init__: both queues empty, no goal, no result
ActionServerIdle ==
    /\ goal_queue = <<>>
    /\ result_queue = <<>>
    /\ goal_handle = 0
    /\ goal_id = -1
    /\ result_msg = 0
    /\ exec_pc = [g \in Goals |-> "none"]
    /\ returned = [g \in Goals |-> 0]
    /\ handle_state = [g \in Goals |-> "executing"]
    /\ tree_pc = "idle"
    /\ accepted = <<>>
    /\ sent = [g \in Goals |-> 0]

\* no cancel request, an empty fault slot, the checkpoint never ran
GoalCanceledIdle ==
    /\ cancel_requested = [g \in Goals |-> FALSE]
    /\ exception = "None"
    /\ gc_status = "none"
    /\ gc_pre = [cancel |-> FALSE, exception |-> "None"]
    /\ preempted_stores = 0

\* a RealKinSimPlugin that was initialised and has not run
KinSimIdle ==
    /\ last_time = <<>>
    /\ observed = <<>>
    /\ dts = <<>>

\* the control cycle at its initial values
CycleIdle ==
    /\ time = 0
    /\ control_cycle_counter = 1
    /\ counter_runs = 0
    /\ cycle_op = "init"

MonitorsInit ==
    /\ monitors = MonitorManagerInit.monitors
    /\ compiled = MonitorManagerInit.compiled
    /\ stay_one_filter = MonitorManagerInit.stay_one_filter
    /\ crucial_filter = MonitorManagerInit.crucial_filter
    /\ state = MonitorManagerInit.state
    /\ switches_state = MonitorManagerInit.switches_state
    /\ notified = <<>>
    /\ triggered = <<>>
    /\ raw = <<>>
    /\ prev_state = <<>>
    /\ pc = "setup"
    /\ op = "init"
    /\ raised = NoException
    /\ last_batch = <<>>
    /\ stale = FALSE

\* add_monitor(monitor) called directly with a constructed monitor
AddMonitor ==
    /\ InSetup
    /\ Len(monitors) < MaxMonitors
    /\ \E name \in MonitorNames, params \in OkParams :
          monitors' = AddMonitorTo(monitors, NewMonitor(name, params))
    /\ op' = "add_monitor"
    /\ raised' = NoException
    /\ last_batch' = <<>>
    /\ UNCHANGED <<compiled, stay_one_filter, crucial_filter, state, switches_state,
                   notified, triggered, raw, prev_state, pc, stale, rest_mm, cy_vars>>

\* parse_monitors(monitor_msgs)
ParseMonitors ==
    /\ InSetup
    /\ \E n \in 0..MaxBatch :
        /\ Len(monitors) + n <= MaxMonitors
        /\ \E msgs \in [1..n -> MonitorMsgs] :
          /\ LET r == ParseFrom(monitors, msgs, 1)
             IN  /\ monitors' = r.monitors
                 /\ raised' = r.raised
                 /\ pc' = IF r.raised = NoException THEN "setup" ELSE "failed"
          /\ last_batch' = msgs
    /\ op' = "parse_monitors"
    /\ UNCHANGED <<compiled, stay_one_filter, crucial_filter, state, switches_state,
                   notified, triggered, raw, prev_state, stale, rest_mm, cy_vars>>

\* CompileMonitors.update -> compile_monitors()
CompileMonitors ==
    /\ InSetup
    /\ LET filter == [i \in 1..Len(monitors) |-> monitors[i].stay_one]
       IN  /\ stay_one_filter' = filter
           /\ state' = ZerosLike(filter)
           /\ switches_state' = ZerosLike(filter)
    /\ crucial_filter' = [i \in 1..Len(monitors) |-> monitors[i].crucial]
    /\ compiled' = TRUE
    /\ pc' = "ready"
    /\ op' = "compile_monitors"
    /\ raised' = NoException
    /\ last_batch' = <<>>
    /\ UNCHANGED <<monitors, notified, triggered, raw, prev_state, stale, rest_mm, cy_vars>>

\* evaluate_monitors() -> update_state(new_state)
EvaluateMonitors ==
    /\ InControlLoop
    /\ \E new_state \in [1..Len(monitors) -> {0, 1}] :
          LET new_flips == FlippedToOne(BoolIndex(switches_state, stay_one_filter),
                                        BoolIndex(new_state, stay_one_filter))
              switches == NextSwitches(switches_state, stay_one_filter, new_state)
              next_state == NextState(switches, new_state)
              any_flips == AnyFlips(state, next_state)
          IN  /\ triggered' = IF NpAny(new_flips)
                              THEN TriggerMonitorFlips(monitors, stay_one_filter, new_flips)
                              ELSE <<>>
              /\ switches_state' = switches
              /\ notified' = IF NpAny(any_flips)
                             THEN NotifyFlipped(monitors, any_flips)
                             ELSE <<>>
              /\ state' = next_state
              /\ raw' = new_state
              /\ prev_state' = state
    /\ op' = "update_state"
    /\ UNCHANGED <<monitors, compiled, stay_one_filter, crucial_filter, pc, raised,
                   last_batch, stale, rest_mm, cy_vars>>

\* what both CleanUp.initialise variants do around replacing / resetting the manager
CleanUpTo(manager, name) ==
    /\ monitors' = manager.monitors
    /\ compiled' = manager.compiled
    /\ stay_one_filter' = manager.stay_one_filter
    /\ crucial_filter' = manager.crucial_filter
    /\ state' = manager.state
    /\ switches_state' = manager.switches_state
    /\ notified' = <<>>
    /\ triggered' = <<>>
    /\ raw' = <<>>
    /\ prev_state' = <<>>
    /\ pc' = "setup"
    /\ op' = name
    /\ raised' = NoException
    /\ last_batch' = <<>>
    /\ stale' = \E i \in 1..Len(state) : state[i] # 0
    /\ UNCHANGED rest_mm

\* a cleanup that leaves the old manager in the god map
CleanUp_KeepManager ==
    /\ CleanUpTo([monitors |-> monitors, compiled |-> compiled,
                  stay_one_filter |-> stay_one_filter, crucial_filter |-> crucial_filter,
                  state |-> state, switches_state |-> switches_state], "cleanup")
    /\ time' = 1
    /\ counter_runs' = 0
    /\ cycle_op' = "cleanup"
    /\ UNCHANGED control_cycle_counter

\* giskardpy CleanUp.initialise: god_map.set_data(identifier.monitor_manager, MonitorManager())
\* and god_map.set_data(identifier.time, 1); it writes no cycle counter
CleanUp ==
    /\ CleanUpTo(MonitorManagerInit, "cleanup")
    /\ time' = 1
    /\ counter_runs' = 0
    /\ cycle_op' = "cleanup"
    /\ UNCHANGED control_cycle_counter

\* giskardpy_ros CleanUp.initialise: god_map.monitor_manager.reset(),
\* god_map.time = 0, god_map.control_cycle_counter = 1
CleanUpRos ==
    /\ CleanUpTo(MonitorManagerReset, "cleanup_ros")
    /\ time' = 0
    /\ control_cycle_counter' = 1
    /\ counter_runs' = 0
    /\ cycle_op' = "cleanup_ros"

NextMonitors ==
    \/ AddMonitor
    \/ ParseMonitors
    \/ CompileMonitors
    \/ EvaluateMonitors
    \/ CleanUp
    \/ CleanUpRos

InitMonitors ==
    /\ MonitorsInit /\ QPIdle /\ FilterIdle /\ LoopIdle /\ CycleIdle /\ OdometryIdle
    /\ ActionServerIdle
    /\ GoalCanceledIdle
    /\ KinSimIdle

SpecMonitors == InitMonitors /\ [][NextMonitors]_vars

-----------------------------------------------------------------------------
(* Properties of the monitor manager (checked under SpecMonitors) *)

\* number of entries of the sequence s equal to x
Count(s, x) == Cardinality({j \in 1..Len(s) : s[j] = x})

C3_CrucialSatisfied ==
    compiled =>
        (crucial_monitors_satisfied <=>
            \A i \in 1..Len(monitors) : monitors[i].crucial => state[i] # 0)

\* satisfied although a monitor that is not crucial is false
C3_Witness ==
    /\ compiled
    /\ crucial_monitors_satisfied
    /\ \E i \in 1..Len(monitors) : monitors[i].crucial
    /\ \E i \in 1..Len(monitors) : ~monitors[i].crucial /\ state[i] = 0

C5_IdsStableDense ==
    [][/\ \A i \in 1..Len(monitors') : monitors'[i].id = i - 1
       /\ op' \in {"add_monitor", "parse_monitors"} =>
             /\ Len(monitors') >= Len(monitors)
             /\ \A i \in 1..Len(monitors) : monitors'[i] = monitors[i]]_vars

\* a second monitor was registered after a first one
C5_Witness ==
    /\ op \in {"add_monitor", "parse_monitors"}
    /\ Len(monitors) >= 2

\* C6: no two registered monitors have the same name.
C6_NamesUnique ==
    \A i, j \in 1..Len(monitors) : monitors[i].name = monitors[j].name => i = j

\* C7: after CleanUp.initialise the manager has no monitors and no arrays, and
\* the arrays of the next episode start all false.
C7_CleanUpResets ==
    /\ op \in {"cleanup", "cleanup_ros"} =>
          /\ monitors = <<>>
          /\ ~compiled
          /\ state = <<>> /\ switches_state = <<>>
          /\ stay_one_filter = <<>> /\ crucial_filter = <<>>
    /\ op = "compile_monitors" =>
          \A i \in 1..Len(state) : state[i] = 0 /\ switches_state[i] = 0

\* the cleanup found an episode with a true monitor state
C7_Witness == op = "cleanup" /\ stale

\* position of the first message of unknown type (0: none)
FirstUnknown(msgs) ==
    IF \E k \in 1..Len(msgs) : msgs[k].type \notin allowed_monitor_types
    THEN CHOOSE k \in 1..Len(msgs) :
            /\ msgs[k].type \notin allowed_monitor_types
            /\ \A j \in 1..(k - 1) : msgs[j].type \in allowed_monitor_types
    ELSE 0

\* position of the first message of known type whose parameters fail (0: none)
FirstBadParams(msgs) ==
    LET bad(k) == msgs[k].type \in allowed_monitor_types /\ msgs[k].params.fails # "no"
    IN  IF \E k \in 1..Len(msgs) : bad(k)
        THEN CHOOSE k \in 1..Len(msgs) : bad(k) /\ \A j \in 1..(k - 1) : ~bad(j)
        ELSE 0

\* C8 as stated: a batch with a message of unknown type ends with
\* UnknownConstraintException.
C8_Original ==
    (op = "parse_monitors" /\ FirstUnknown(last_batch) > 0) =>
        raised.cls = "UnknownConstraintException"

\* C8 amended: a batch with a message of unknown type fails during registration,
\* before compile_monitors and before any tick; the error is
\* UnknownConstraintException naming the type unless an earlier message of the
\* batch failed to initialise.
C8_UnknownTypeFails ==
    (op = "parse_monitors" /\ FirstUnknown(last_batch) > 0) =>
        /\ raised.cls # "None"
        /\ pc = "failed" /\ ~compiled /\ raw = <<>>
        /\ (FirstBadParams(last_batch) = 0
             \/ FirstUnknown(last_batch) < FirstBadParams(last_batch)) =>
              raised = [cls |-> "UnknownConstraintException",
                        names |-> last_batch[FirstUnknown(last_batch)].type]

\* the unknown type came second, after a message that registered a monitor
C8_Witness ==
    /\ op = "parse_monitors"
    /\ FirstUnknown(last_batch) = 2
    /\ FirstBadParams(last_batch) = 0
    /\ raised.cls = "UnknownConstraintException"

\* C9 as stated: every decoding or constructor failure ends the call with
\* ConstraintInitalizationException naming the type.
C9_Original ==
    (/\ op = "parse_monitors"
     /\ FirstBadParams(last_batch) > 0
     /\ (FirstUnknown(last_batch) = 0
          \/ FirstUnknown(last_batch) > FirstBadParams(last_batch))) =>
        raised = [cls |-> "ConstraintInitalizationException",
                  names |-> last_batch[FirstBadParams(last_batch)].type]

\* C9 amended: a decoding or constructor failure aborts registration; if the
\* exception is no GiskardException the error is ConstraintInitalizationException
\* naming the type, and a GiskardException is raised as it is.
C9_InitFailure ==
    (/\ op = "parse_monitors"
     /\ FirstBadParams(last_batch) > 0
     /\ (FirstUnknown(last_batch) = 0
          \/ FirstUnknown(last_batch) > FirstBadParams(last_batch))) =>
        LET msg == last_batch[FirstBadParams(last_batch)]
        IN  /\ pc = "failed"
            /\ IF msg.params.fails \in {"GiskardException", "UnknownGroupException",
                                        "UnknownConstraintException",
                                        "ConstraintInitalizationException"}
               THEN raised = [cls |-> msg.params.fails, names |-> ""]
               ELSE raised = [cls |-> "ConstraintInitalizationException",
                              names |-> msg.type]

\* a TypeError of the second message was turned into an initialization error
C9_Witness ==
    /\ op = "parse_monitors"
    /\ FirstBadParams(last_batch) = 2
    /\ last_batch[2].params.fails = "TypeError"
    /\ raised.cls = "ConstraintInitalizationException"

-----------------------------------------------------------------------------
(* The QP formatter on its own *)

\* a formatter is set up with the class default or a smaller configured budget
InitQP ==
    /\ MonitorsInit
    /\ FilterIdle
    /\ LoopIdle
    /\ CycleIdle
    /\ OdometryIdle
    /\ ActionServerIdle
    /\ GoalCanceledIdle
    /\ KinSimIdle
    /\ budget \in 1..retries_default
    /\ retries_with_relaxed_constraints = budget
    /\ retries_before = budget
    /\ solve_calls = <<>>
    /\ first_attempt = NoCall
    /\ qp_result = NoCall
    /\ second_attempt = NoCall
    /\ relaxed_attempts = 0
    /\ relaxed_backend = NoCall
    /\ exhausted = FALSE

\* solve_and_retry(substitutions) on a QPSWIFTFormatter
SolveAndRetry ==
    /\ retries_with_relaxed_constraints > -MaxOverdraft
    /\ \E backend \in BackendOutcomes, relaxed \in RelaxedBackendOutcomes :
          LET r == SolveAndRetryResult(retries_with_relaxed_constraints, backend)
          IN  /\ retries_with_relaxed_constraints' = r.retries
              /\ solve_calls' = r.calls
              /\ first_attempt' = r.first
              /\ second_attempt' = r.second
              /\ qp_result' = r.end
              /\ relaxed_attempts' = relaxed_attempts + (Len(r.calls) - 1)
              /\ relaxed_backend' = IF Len(r.calls) = 2 THEN relaxed ELSE NoCall
    /\ retries_before' = retries_with_relaxed_constraints
    /\ exhausted' = (exhausted \/ OutOfRetries(second_attempt))
    /\ UNCHANGED <<budget, rest_qp>>

\* solve_and_retry(substitutions) on a QPSolver whose solve calls end in any way
SolveAndRetryAbstract ==
    /\ \E first \in BackendOutcomes, second \in SecondOutcomes :
          LET r == SolveAndRetryEnds(first, second)
          IN  /\ solve_calls' = r.calls
              /\ first_attempt' = r.first
              /\ second_attempt' = r.second
              /\ qp_result' = r.end
    /\ retries_before' = retries_with_relaxed_constraints
    /\ UNCHANGED <<retries_with_relaxed_constraints, budget, relaxed_attempts,
                   relaxed_backend, exhausted, rest_qp>>

NextRetry == SolveAndRetryAbstract

SpecRetry == InitQP /\ [][NextRetry]_vars

NextQP == SolveAndRetry

SpecQP == InitQP /\ [][NextQP]_vars

-----------------------------------------------------------------------------
(* The filters of a formatter on their own *)

\* a formatter of some shape, constructed and not yet used
InitFilter ==
    /\ MonitorsInit
    /\ QPIdle
    /\ LoopIdle
    /\ CycleIdle
    /\ OdometryIdle
    /\ ActionServerIdle
    /\ GoalCanceledIdle
    /\ KinSimIdle
    /\ shape \in Shapes
    /\ weights = <<>>
    /\ weight_filter = <<>>
    /\ bE_filter = <<>>
    /\ bA_filter_half = <<>>
    /\ filtered = NoData
    /\ problem_data = NoData

\* split_and_filter_results(combined_problem_data) of a non-relaxed solve; the
\* tick's substitutions decide which weights are zero
SplitAndFilterResults ==
    /\ \E nonzero \in [1..num_free_variable_constraints(shape) -> BOOLEAN] :
          LET w == [i \in 1..Len(nonzero) |-> IF nonzero[i] THEN i ELSE 0]
              self == SplitResults(shape, CombinedProblemData(shape, Problem(shape, w)))
              f == update_filters(shape, self)
          IN  /\ weights' = self.weights
              /\ weight_filter' = f.weight_filter
              /\ bE_filter' = f.bE_filter
              /\ bA_filter_half' = f.bA_filter_half
              /\ filtered' = apply_filters(self, f)
    /\ problem_data' = NoData
    /\ UNCHANGED <<shape, rest_ft>>

\* get_problem_data() after a solve
GetProblemData ==
    /\ filtered # NoData
    /\ problem_data' = get_problem_data(filtered, weight_filter, bE_filter,
                                        bA_filter_half)
    /\ UNCHANGED <<shape, weights, weight_filter, bE_filter, bA_filter_half, filtered,
                   rest_ft>>

NextFilter == SplitAndFilterResults \/ GetProblemData

SpecFilter == InitFilter /\ [][NextFilter]_vars

-----------------------------------------------------------------------------
(* The control loop on its own *)

\* a control loop as __init__ leaves it: no mode's stages added yet
InitLoop ==
    /\ MonitorsInit
    /\ QPIdle
    /\ FilterIdle
    /\ CycleIdle
    /\ OdometryIdle
    /\ ActionServerIdle
    /\ GoalCanceledIdle
    /\ KinSimIdle
    /\ children \in {ControlLoopInit(log_traj, collision_checking) :
                        log_traj \in BOOLEAN, collision_checking \in BOOLEAN}
    /\ in_projection = "unset"
    /\ controller_active = TRUE
    /\ debug_added = FALSE
    /\ trail = <<>>

\* add_projection_behaviors(), called on a loop that is in neither mode yet
AddProjectionBehaviors ==
    /\ in_projection = "unset"
    /\ children' = add_projection_behaviors(children)
    /\ in_projection' = "True"
    /\ trail' = Remember("add_projection_behaviors")
    /\ UNCHANGED <<controller_active, debug_added, rest_cl>>

\* add_closed_loop_behaviors(), called on a loop that is in neither mode yet
AddClosedLoopBehaviors ==
    /\ in_projection = "unset"
    /\ children' = add_closed_loop_behaviors(children)
    /\ in_projection' = "False"
    /\ trail' = Remember("add_closed_loop_behaviors")
    /\ UNCHANGED <<controller_active, debug_added, rest_cl>>

\* switch_to_projection()
SwitchToProjection ==
    /\ in_projection # "unset"
    /\ children' = IF ToggleRuns(in_projection, "True")
                   THEN switch_to_projection(children)
                   ELSE children
    /\ in_projection' = "True"
    /\ trail' = Remember("switch_to_projection")
    /\ UNCHANGED <<controller_active, debug_added, rest_cl>>

\* switch_to_closed_loop() on a tree that is a closed-loop tree (line 83)
SwitchToClosedLoop ==
    /\ in_projection # "unset"
    /\ children' = IF ToggleRuns(in_projection, "False")
                   THEN switch_to_closed_loop(children)
                   ELSE children
    /\ in_projection' = "False"
    /\ trail' = Remember("switch_to_closed_loop")
    /\ UNCHANGED <<controller_active, debug_added, rest_cl>>

\* an add_qp_controller() without its toggle_on decorator
AddQpController_Untoggled ==
    /\ children' = add_qp_controller(children)
    /\ controller_active' = TRUE
    /\ trail' = Remember("add_qp_controller")
    /\ UNCHANGED <<in_projection, debug_added, rest_cl>>

\* add_qp_controller()
AddQpController ==
    /\ children' = IF ToggleRuns(controller_active, TRUE)
                   THEN add_qp_controller(children)
                   ELSE children
    /\ controller_active' = TRUE
    /\ trail' = Remember("add_qp_controller")
    /\ UNCHANGED <<in_projection, debug_added, rest_cl>>

\* remove_qp_controller()
RemoveQpController ==
    /\ children' = IF ToggleRuns(controller_active, FALSE)
                   THEN remove_qp_controller(children)
                   ELSE children
    /\ controller_active' = FALSE
    /\ trail' = Remember("remove_qp_controller")
    /\ UNCHANGED <<in_projection, debug_added, rest_cl>>

\* add_evaluate_debug_expressions(log_traj)
AddEvaluateDebugExpressions ==
    /\ children' = IF ~debug_added
                   THEN InsertChild(children, "EvaluateDebugExpressions", 3)
                   ELSE children
    /\ debug_added' = TRUE
    /\ trail' = Remember("add_evaluate_debug_expressions")
    /\ UNCHANGED <<in_projection, controller_active, rest_cl>>

NextLoop ==
    \/ AddProjectionBehaviors
    \/ AddClosedLoopBehaviors
    \/ SwitchToProjection
    \/ SwitchToClosedLoop
    \/ AddQpController
    \/ RemoveQpController
    \/ AddEvaluateDebugExpressions

SpecLoop == InitLoop /\ [][NextLoop]_vars

-----------------------------------------------------------------------------
(* The control cycle's time and counter on their own *)

\* TimePlugin.update: god_map.time += god_map.qp_controller.sample_period
TimePluginUpdate ==
    /\ time < MaxTicks
    /\ time' = time + 1
    /\ cycle_op' = "time"
    /\ UNCHANGED <<control_cycle_counter, counter_runs, mm_vars, rest_cy>>

\* RosTime.update: god_map.time = now - god_map.motion_start_time; the start time
\* may lie ahead of the clock
RosTimeUpdate ==
    /\ \E elapsed \in (0 - MaxTicks)..MaxTicks : time' = elapsed
    /\ cycle_op' = "ros_time"
    /\ UNCHANGED <<control_cycle_counter, counter_runs, mm_vars, rest_cy>>

\* ControlCycleCounter.update: god_map.control_cycle_counter += 1
ControlCycleCounterUpdate ==
    /\ control_cycle_counter <= MaxTicks
    /\ control_cycle_counter' = control_cycle_counter + 1
    /\ counter_runs' = counter_runs + 1
    /\ cycle_op' = "control_cycle_counter"
    /\ UNCHANGED <<time, mm_vars, rest_cy>>

NextCycle ==
    \/ TimePluginUpdate
    \/ RosTimeUpdate
    \/ ControlCycleCounterUpdate
    \/ CleanUp
    \/ CleanUpRos

SpecCycle == InitMonitors /\ [][NextCycle]_vars

-----------------------------------------------------------------------------
(* RealKinSimPlugin: the integration step of the closed loop *)

\* an update that keeps the stored time on a tick with time <= 0
real_kin_sim_update_KeepLast(last, next_time) ==
    IF next_time <= 0 \/ last = <<>>
    THEN [last_time |-> IF last = <<>> THEN <<next_time>> ELSE last, dt |-> <<>>]
    ELSE [last_time |-> <<next_time>>, dt |-> <<next_time - last[1]>>]

\* update, lines 20-30, with self.last_time = last and god_map time next_time: the
\* last_time it leaves and the dt it gives world.update_state (<<>>: no call)
real_kin_sim_update(last, next_time) ==
    IF next_time <= 0 \/ last = <<>>
    THEN [last_time |-> <<next_time>>, dt |-> <<>>]
    ELSE [last_time |-> <<next_time>>, dt |-> <<next_time - last[1]>>]

\* RealKinSimPlugin.initialise
RealKinSimInitialise ==
    /\ last_time' = <<>>
    /\ observed' = <<>>
    /\ dts' = <<>>
    /\ UNCHANGED rest_rk

\* RealKinSimPlugin.update
RealKinSimUpdate ==
    /\ Len(observed) <= MaxTicks
    /\ LET r == real_kin_sim_update(last_time, time)
       IN  /\ last_time' = r.last_time
           /\ dts' = dts \o r.dt
    /\ observed' = Append(observed, time)
    /\ UNCHANGED rest_rk

NextKinSim ==
    \/ RosTimeUpdate
    \/ RealKinSimInitialise
    \/ RealKinSimUpdate

SpecKinSim == InitMonitors /\ [][NextKinSim]_vars

-----------------------------------------------------------------------------
(* SyncOdometry: the subscriber callback against the tick *)

InitOdometry ==
    /\ MonitorsInit
    /\ QPIdle
    /\ FilterIdle
    /\ LoopIdle
    /\ CycleIdle
    /\ OdometryIdle
    /\ ActionServerIdle
    /\ GoalCanceledIdle
    /\ KinSimIdle

\* Queue.get_nowait() / Queue.get() on a queue that holds a message: what is left
QueueGet(queue) == Tail(queue)

\* a cb that leaves an unconsumed message in the queue
CbGetNowait_Keep ==
    /\ cb_pc = "idle"
    /\ delivered < MaxMsgs
    /\ delivered' = delivered + 1
    /\ cb_data' = delivered + 1
    /\ cb_pc' = "put"
    /\ UNCHANGED <<lock, update_pc, joint_transform, reads, rest_od>>

\* cb(data), lines 43-46: self.lock.get_nowait(), Empty passed over
CbGetNowait ==
    /\ cb_pc = "idle"
    /\ delivered < MaxMsgs
    /\ delivered' = delivered + 1
    /\ cb_data' = delivered + 1
    /\ lock' = IF lock # <<>> THEN QueueGet(lock) ELSE lock
    /\ cb_pc' = "put"
    /\ UNCHANGED <<update_pc, joint_transform, reads, rest_od>>

\* cb(data), line 47: self.lock.put(data), which waits while the queue is full
CbPut ==
    /\ cb_pc = "put"
    /\ Len(lock) < 1
    /\ lock' = Append(lock, cb_data)
    /\ cb_pc' = "idle"
    /\ cb_data' = 0
    /\ UNCHANGED <<delivered, update_pc, joint_transform, reads, rest_od>>

\* update(), lines 54-55 and 59, entered with a message in the queue
UpdateTakes ==
    /\ lock # <<>>
    /\ lock' = QueueGet(lock)
    /\ joint_transform' = Head(lock)
    /\ reads' = Append(reads, [msg |-> Head(lock), delivered |-> delivered])
    /\ update_pc' = "idle"
    /\ UNCHANGED <<cb_pc, cb_data, delivered, rest_od>>

\* update(), line 54, entered with an empty queue: self.lock.get() has no timeout
\* and waits for the next put
UpdateWaits ==
    /\ update_pc = "idle"
    /\ lock = <<>>
    /\ update_pc' = "get"
    /\ UNCHANGED <<lock, cb_pc, cb_data, delivered, joint_transform, reads, rest_od>>

NextOdometry ==
    \/ CbGetNowait
    \/ CbPut
    \/ UpdateTakes
    \/ UpdateWaits

SpecOdometry == InitOdometry /\ [][NextOdometry]_vars

-----------------------------------------------------------------------------
(* ActionServerHandler: the transport's execute_cb calls against the tree *)

InitServer ==
    /\ MonitorsInit
    /\ QPIdle
    /\ FilterIdle
    /\ LoopIdle
    /\ CycleIdle
    /\ OdometryIdle
    /\ ActionServerIdle
    /\ GoalCanceledIdle
    /\ KinSimIdle

\* the goal the tree is working on (0: none)
CurrentGoal == IF accepted = <<>> THEN 0 ELSE accepted[Len(accepted)]

\* the transport calls execute_cb(goal); goals are handed over in order, and
\* nothing in the handler keeps a call from starting while another is waiting
ExecuteCbCall(g) ==
    /\ exec_pc[g] = "none"
    /\ \A h \in Goals : h < g => exec_pc[h] # "none"
    /\ exec_pc' = [exec_pc EXCEPT ![g] = "put"]
    /\ UNCHANGED <<goal_queue, result_queue, goal_handle, goal_id, result_msg,
                   returned, handle_state, tree_pc, accepted, sent, rest_as>>

\* execute_cb line 49: self.goal_queue.put(goal), waits while the queue is full
ExecuteCbPut(g) ==
    /\ exec_pc[g] = "put"
    /\ Len(goal_queue) < 1
    /\ goal_queue' = Append(goal_queue, g)
    /\ exec_pc' = [exec_pc EXCEPT ![g] = "get"]
    /\ UNCHANGED <<result_queue, goal_handle, goal_id, result_msg,
                   returned, handle_state, tree_pc, accepted, sent, rest_as>>

\* execute_cb line 50: result_msg = self.result_queue.get(), waits for a result
ExecuteCbGet(g) ==
    /\ exec_pc[g] = "get"
    /\ result_queue # <<>>
    /\ returned' = [returned EXCEPT ![g] = Head(result_queue)]
    /\ result_queue' = Tail(result_queue)
    /\ exec_pc' = [exec_pc EXCEPT ![g] = "clear_handle"]
    /\ UNCHANGED <<goal_queue, goal_handle, goal_id, result_msg,
                   handle_state, tree_pc, accepted, sent, rest_as>>

\* execute_cb lines 52-53: self.goal_msg = None, self.goal_handle = None
ExecuteCbClearHandle(g) ==
    /\ exec_pc[g] = "clear_handle"
    /\ goal_handle' = 0
    /\ exec_pc' = [exec_pc EXCEPT ![g] = "clear_result"]
    /\ UNCHANGED <<goal_queue, result_queue, goal_id, result_msg,
                   returned, handle_state, tree_pc, accepted, sent, rest_as>>

\* execute_cb lines 54-55: self.result_msg = None, return result_msg
ExecuteCbReturn(g) ==
    /\ exec_pc[g] = "clear_result"
    /\ result_msg' = 0
    /\ exec_pc' = [exec_pc EXCEPT ![g] = "returned"]
    /\ UNCHANGED <<goal_queue, result_queue, goal_handle, goal_id,
                   returned, handle_state, tree_pc, accepted, sent, rest_as>>

\* accept_goal, lines 68-76, called by the idle tree when has_goal() holds
AcceptGoal ==
    /\ tree_pc = "idle"
    /\ goal_queue # <<>>
    /\ goal_handle' = Head(goal_queue)
    /\ goal_queue' = Tail(goal_queue)
    /\ goal_id' = goal_id + 1
    /\ accepted' = Append(accepted, Head(goal_queue))
    /\ tree_pc' = "working"
    /\ UNCHANGED <<result_queue, result_msg, exec_pc, returned, handle_state,
                   sent, rest_as>>

\* the result_msg setter, lines 84-86: the tree stores the result of its goal
SetResultMsg ==
    /\ tree_pc = "working"
    /\ result_msg' = CurrentGoal
    /\ tree_pc' = "result_set"
    /\ UNCHANGED <<goal_queue, result_queue, goal_handle, goal_id, exec_pc,
                   returned, handle_state, accepted, sent, rest_as>>

\* send_preempted / send_aborted / send_result, first line (95, 99, 103):
\* self.goal_handle.canceled() / abort() / succeed(); on None it raises
SendTransition(kind) ==
    /\ tree_pc = "result_set"
    /\ IF goal_handle = 0
       THEN /\ tree_pc' = "raised"
            /\ UNCHANGED handle_state
       ELSE /\ tree_pc' = "sending"
            /\ handle_state' = [handle_state EXCEPT ![goal_handle] = kind]
    /\ UNCHANGED <<goal_queue, result_queue, goal_handle, goal_id, result_msg,
                   exec_pc, returned, accepted, sent, rest_as>>

\* send_*, second line (96, 100, 104): self.result_queue.put(self.result_msg);
\* the property (78-82) raises when no result is set, put waits while the queue is full
SendPut ==
    /\ tree_pc = "sending"
    /\ IF result_msg = 0
       THEN /\ tree_pc' = "raised"
            /\ UNCHANGED <<result_queue, sent>>
       ELSE /\ Len(result_queue) < 1
            /\ result_queue' = Append(result_queue, result_msg)
            /\ sent' = [sent EXCEPT ![CurrentGoal] = @ + 1]
            /\ tree_pc' = "idle"
    /\ UNCHANGED <<goal_queue, goal_handle, goal_id, result_msg, exec_pc,
                   returned, handle_state, accepted, rest_as>>

\* what class ActionServerHandler defines
ActionServerHandlerMethods ==
    {"is_goal_msg_type_execute", "is_goal_msg_type_projection",
     "is_goal_msg_type_undefined", "execute_cb", "is_client_alive", "ping_client",
     "accept_goal", "result_msg", "has_goal", "send_feedback", "send_preempted",
     "send_aborted", "send_result", "is_preempt_requested"}

\* is_client_alive, lines 57-58
is_client_alive == TRUE

\* goal_handle.is_cancel_requested of the handle the server holds
CancelPending == goal_handle # 0 /\ cancel_requested[goal_handle]

\* the client asks to cancel a goal whose execute_cb call is under way
CancelRequest(g) ==
    /\ exec_pc[g] \in {"put", "get"}
    /\ ~cancel_requested[g]
    /\ cancel_requested' = [cancel_requested EXCEPT ![g] = TRUE]
    /\ UNCHANGED <<exception, gc_status, gc_pre, preempted_stores, as_vars, rest_gc>>

\* a stage of the tree raises and raise_to_blackboard stores the exception;
\* no stage runs in a tick the checkpoint has cut short
StageFault ==
    /\ tree_pc = "working"
    /\ gc_status \in {"none", "FAILURE"}
    /\ exception' = "Fault"
    /\ UNCHANGED <<cancel_requested, gc_status, gc_pre, preempted_stores, as_vars, rest_gc>>

\* GoalCanceled.update calling a name that is_cancel_requested stands for
GoalCanceledUpdate_As(is_cancel_requested, set_canceled) ==
    /\ tree_pc = "working"
    /\ gc_pre' = [cancel |-> CancelPending, exception |-> exception]
    /\ IF is_cancel_requested \notin ActionServerHandlerMethods \/ goal_handle = 0
       THEN \* line 21: AttributeError leaves update
            /\ gc_status' = "AttributeError"
            /\ tree_pc' = "raised"
            /\ UNCHANGED <<exception, preempted_stores>>
       ELSE IF (CancelPending /\ exception = "None") \/ ~is_client_alive
       THEN IF set_canceled \notin ActionServerHandlerMethods
            THEN \* line 23: AttributeError leaves update
                 /\ gc_status' = "AttributeError"
                 /\ tree_pc' = "raised"
                 /\ UNCHANGED <<exception, preempted_stores>>
            ELSE \* lines 23-28
                 /\ exception' = "PreemptedException"
                 /\ preempted_stores' = preempted_stores + 1
                 /\ gc_status' = "SUCCESS"
                 /\ UNCHANGED tree_pc
       ELSE \* lines 27-30
            /\ gc_status' = IF exception # "None" THEN "SUCCESS" ELSE "FAILURE"
            /\ UNCHANGED <<exception, preempted_stores, tree_pc>>
    /\ UNCHANGED <<cancel_requested, goal_queue, result_queue, goal_handle, goal_id,
                   result_msg, exec_pc, returned, handle_state, accepted, sent, rest_gc>>

\* GoalCanceled.update, lines 18-30
GoalCanceledUpdate == GoalCanceledUpdate_As("is_cancel_requested", "set_canceled")

NextServer ==
    \/ \E g \in Goals : ExecuteCbCall(g)
    \/ \E g \in Goals : ExecuteCbPut(g)
    \/ \E g \in Goals : ExecuteCbGet(g)
    \/ \E g \in Goals : ExecuteCbClearHandle(g)
    \/ \E g \in Goals : ExecuteCbReturn(g)
    \/ AcceptGoal
    \/ SetResultMsg
    \/ \E kind \in {"canceled", "aborted", "succeeded"} : SendTransition(kind)
    \/ SendPut
    \/ \E g \in Goals : CancelRequest(g)
    \/ StageFault
    \/ GoalCanceledUpdate

SpecServer == InitServer /\ [][NextServer]_vars

-----------------------------------------------------------------------------
(* Properties of solve_and_retry (checked under SpecQP) *)

\* C10: solve_and_retry calls solve once or twice, first without relaxation; it
\* calls it a second time, with relaxation, exactly when the first call raised a
\* QPSolverException; a first call that returns ends the call with that solution
\* and the retry counter as it was.
C10_AtMostTwoAttempts ==
    solve_calls # <<>> =>
        /\ Len(solve_calls) \in {1, 2}
        /\ solve_calls[1] = FALSE
        /\ Len(solve_calls) = 2 <=>
              first_attempt.cls \in {"QPSolverException", "InfeasibleException",
                                     "HardConstraintsViolatedException"}
        /\ Len(solve_calls) = 2 => solve_calls[2] = TRUE
        /\ first_attempt.cls = "None" =>
              /\ solve_calls = <<FALSE>>
              /\ qp_result = first_attempt
              /\ retries_with_relaxed_constraints = retries_before

\* a relaxed second attempt was made after an infeasible first one
C10_Witness ==
    /\ solve_calls = <<FALSE, TRUE>>
    /\ first_attempt.cls = "InfeasibleException"

\* C11 (checked under SpecRetry): when both solve calls raise, a
\* HardConstraintsViolatedException of the second call is what solve_and_retry
\* raises, and after any other InfeasibleException of the second call it raises
\* the exception object of the first call.
C11_ErrorPropagation ==
    solve_calls = <<FALSE, TRUE>> =>
        /\ second_attempt.cls = "HardConstraintsViolatedException" =>
              qp_result = second_attempt /\ qp_result.attempt = 2
        /\ second_attempt.cls = "InfeasibleException" =>
              qp_result = first_attempt /\ qp_result.attempt = 1

\* the second call raised a plain InfeasibleException after a hard first error
C11_Witness ==
    /\ solve_calls = <<FALSE, TRUE>>
    /\ first_attempt.cls = "HardConstraintsViolatedException"
    /\ second_attempt.cls = "InfeasibleException"
    /\ qp_result.attempt = 1

-----------------------------------------------------------------------------
(* Properties of the retry counter (checked under SpecQP) *)

\* C15: the retry counter retries_with_relaxed_constraints is never negative.
C15_CounterNonNegative == retries_with_relaxed_constraints >= 0

C17_CounterRestored ==
    (solve_calls # <<>> /\ qp_result.cls # "HardConstraintsViolatedException") =>
        retries_with_relaxed_constraints = retries_before

\* C18: when the first solve raised an infeasibility, the budget allows a relaxed
\* solve, and the backend solves the relaxed problem with a solution inside the
\* original bounds, solve_and_retry returns that solution.
C18_BestEffortAccepted ==
    ( /\ solve_calls = <<FALSE, TRUE>>
      /\ IsInfeasibleException(first_attempt.cls)
      /\ retries_before > 1
      /\ relaxed_backend.cls = "None"
      /\ WithinOriginalBounds(relaxed_backend.value) ) =>
        qp_result = relaxed_backend

-----------------------------------------------------------------------------
(* Properties of the filters (checked under SpecFilter) *)

\* the column of the k-th equality-slack / inequality-slack variable
EqSlackColumn(k) == shape.num_non_slack_variables + k
NeqSlackColumn(k) == shape.num_non_slack_variables + shape.num_eq_slack_variables + k

\* column c is a slack column whose weight is exactly zero
ZeroSlackColumn(c) == c > shape.num_non_slack_variables /\ weights[c] = 0

\* equality row r is one of the trailing rows paired with a zero-weight slack column
ZeroSlackEqRow(r) ==
    LET k == r - (shape.num_eq_constraints - shape.num_eq_slack_variables)
    IN  k >= 1 /\ ZeroSlackColumn(EqSlackColumn(k))

\* inequality constraint r is paired with a zero-weight slack column
ZeroSlackNeqRow(r) ==
    LET k == r - (shape.num_neq_constraints - shape.num_neq_slack_variables)
    IN  k >= 1 /\ ZeroSlackColumn(NeqSlackColumn(k))

\* the masks that drop the zero-weight slack columns and their rows, nothing else
SlackGatedColumns == [c \in 1..num_free_variable_constraints(shape) |-> ~ZeroSlackColumn(c)]
SlackGatedEqRows == [r \in 1..shape.num_eq_constraints |-> ~ZeroSlackEqRow(r)]
SlackGatedNeqRows == [r \in 1..shape.num_neq_constraints |-> ~ZeroSlackNeqRow(r)]

\* C12: after update_filters, weight_filter is true on every non-slack column and
\* false exactly on the slack columns of weight zero, whatever the slack partition.
C12_NonSlackNeverFiltered ==
    filtered # NoData =>
        /\ \A c \in 1..shape.num_non_slack_variables : weight_filter[c]
        /\ weight_filter = SlackGatedColumns

\* C13: after update_filters and apply_filters the columns, equality rows and
\* inequality constraints that are gone are exactly the zero-weight slack columns
\* and the rows paired with them (an inequality constraint in both halves), all
\* else is kept with its values; one zero-weight inequality-slack column alone makes
\* the weight vector one shorter.
C13_SlackGatedRowFiltering ==
    filtered # NoData =>
        LET p == Problem(shape, weights)
            cols == SlackGatedColumns
            eqs == SlackGatedEqRows
            neqs == SlackGatedNeqRows
            AA == BoolIndexColumns(BoolIndex(A_A_slack(shape, p), neqs), cols)
            II == [i \in 1..Len(BoolIndex(weights, cols)) |->
                      EyeRow(Len(BoolIndex(weights, cols)), i)]
        IN  /\ filtered.weights = BoolIndex(weights, cols)
            /\ filtered.E = BoolIndexColumns(BoolIndex(E_E_slack(shape, p), eqs), cols)
            /\ filtered.bE = BoolIndex(p.bE, eqs)
            /\ filtered.nI_nA_I_A =
                  [i \in 1..Len(II) |-> Neg(II[i])] \o [r \in 1..Len(AA) |-> Neg(AA[r])]
                  \o II \o AA
            /\ filtered.nlb_nlbA_ub_ubA =
                  Neg(BoolIndex(p.lb, cols)) \o Neg(BoolIndex(p.lbA, neqs))
                  \o BoolIndex(p.ub, cols) \o BoolIndex(p.ubA, neqs)
            /\ ( /\ \E k \in 1..shape.num_neq_slack_variables :
                        weights[NeqSlackColumn(k)] = 0
                 /\ Cardinality({c \in 1..Len(weights) : weights[c] = 0}) = 1 ) =>
                  Len(filtered.weights) = Len(weights) - 1

\* C14: get_problem_data() after a non-relaxed solve returns the problem given to
\* that solve, restricted to the columns weight_filter keeps and to the rows
\* bE_filter and the inequality part of bA_filter_half keep, in the original order
\* and with lb and lbA sign-restored, together with those three masks.
C14_FilterRoundTrip ==
    problem_data # NoData =>
        LET p == Problem(shape, weights)
            neqs == SliceFrom(bA_filter_half, num_free_variable_constraints(shape))
        IN  /\ Len(weight_filter) = num_free_variable_constraints(shape)
            /\ Len(bE_filter) = shape.num_eq_constraints
            /\ Len(neqs) = shape.num_neq_constraints
            /\ problem_data.weight_filter = weight_filter
            /\ problem_data.bE_filter = bE_filter
            /\ problem_data.bA_filter = neqs
            /\ problem_data.weights = BoolIndex(p.weights, weight_filter)
            /\ problem_data.lb = BoolIndex(p.lb, weight_filter)
            /\ problem_data.ub = BoolIndex(p.ub, weight_filter)
            /\ problem_data.E =
                  BoolIndexColumns(BoolIndex(E_E_slack(shape, p), bE_filter),
                                   weight_filter)
            /\ problem_data.bE = BoolIndex(p.bE, bE_filter)
            /\ problem_data.A =
                  BoolIndexColumns(BoolIndex(A_A_slack(shape, p), neqs), weight_filter)
            /\ problem_data.lbA = BoolIndex(p.lbA, neqs)
            /\ problem_data.ubA = BoolIndex(p.ubA, neqs)

\* problem data fetched after a solve that dropped a column, an equality row and
\* an inequality constraint and kept one of each
C14_Witness ==
    /\ problem_data # NoData
    /\ \E c \in 1..Len(weight_filter) : ~weight_filter[c]
    /\ \E r \in 1..Len(bE_filter) : ~bE_filter[r]
    /\ \E r \in 1..Len(problem_data.bA_filter) : ~problem_data.bA_filter[r]
    /\ Len(problem_data.E) >= 1
    /\ Len(problem_data.A) >= 1
    /\ Len(problem_data.weights) < Len(weights)

-----------------------------------------------------------------------------
(* Properties of the stage list (checked under SpecLoop) *)

\* the stage occurs exactly once in the stage list
Once(stage) == Cardinality({i \in 1..Len(children) : children[i] = stage}) = 1

\* C19: in every reachable stage list the cancellation checkpoint is the first
\* stage, monitor evaluation comes before the goal-completion check, the
\* goal-completion check before the controller step if that is present, and
\* state publishing is the last stage.
C19_StageOrder ==
    /\ children[1] = "goal_canceled"
    /\ children[Len(children)] = "publish_state"
    /\ Once("goal_canceled") /\ Once("publish_state")
    /\ Once("EvaluateMonitors") /\ Once("check_monitors")
    /\ IndexOf(children, "EvaluateMonitors") < IndexOf(children, "check_monitors")
    /\ IndexOf(children, "controller_plugin") # 0 =>
          /\ Once("controller_plugin")
          /\ IndexOf(children, "check_monitors") < IndexOf(children, "controller_plugin")

\* the controller was put back in projection mode, after the debug stage was added
C19_Witness ==
    /\ in_projection = "True"
    /\ debug_added
    /\ Len(trail) = 2
    /\ trail[1].op = "remove_qp_controller"
    /\ trail[2].op = "add_qp_controller"
    /\ IndexOf(trail[2].children, "controller_plugin") = 0
    /\ IndexOf(children, "controller_plugin") # 0

\* the last two operations were a mode switch away from `mode` and the switch back
RoundTripFrom(mode, away, back) ==
    /\ Len(trail) = 2
    /\ trail[1].in_projection = mode
    /\ trail[1].op = away
    /\ trail[2].op = back

\* C20: switch_to_projection() and then switch_to_closed_loop() on a closed-loop
\* stage list, and switch_to_closed_loop() and then switch_to_projection() on a
\* projection stage list, leave the stage list as it was before the two calls.
C20_ModeRoundTrip ==
    /\ RoundTripFrom("False", "switch_to_projection", "switch_to_closed_loop") =>
          children = trail[1].children
    /\ RoundTripFrom("True", "switch_to_closed_loop", "switch_to_projection") =>
          children = trail[1].children

\* the stages only projection mode has, and the stages only closed-loop mode has
ProjectionStages == {"projection_synchronization", "time", "kin_sim"}
ClosedLoopStages == {"closed_loop_synchronization", "ros_time", "real_kin_sim",
                     "send_controls"}

\* the stages of the list, as a set
StagesOf(list) == {list[i] : i \in 1..Len(list)}

\* C21: stages of projection mode and stages of closed-loop mode are never in the
\* stage list together, and those in it belong to the mode in_projection records.
C21_ModeExclusive ==
    /\ ~(StagesOf(children) \cap ProjectionStages # {}
         /\ StagesOf(children) \cap ClosedLoopStages # {})
    /\ StagesOf(children) \cap ProjectionStages # {} => in_projection = "True"
    /\ StagesOf(children) \cap ClosedLoopStages # {} => in_projection = "False"

\* the last two operations were the same toggle
Repeated(toggle) ==
    /\ Len(trail) = 2
    /\ trail[1].op = toggle
    /\ trail[2].op = toggle

RECURSIVE Without(_, _)
Without(list, stages) ==
    IF list = <<>> THEN <<>>
    ELSE (IF Head(list) \in stages THEN <<>> ELSE <<Head(list)>>)
         \o Without(Tail(list), stages)

\* C23: in either mode a remove_qp_controller that runs takes out the controller
\* stage and kin_sim and nothing else, and an add_qp_controller right after it
\* brings back the stage list of before the removal.
C23_ControllerToggle ==
    /\ ( /\ Len(trail) >= 1
         /\ trail[Len(trail)].op = "remove_qp_controller"
         /\ trail[Len(trail)].controller_active
         /\ in_projection # "unset" ) =>
          children = Without(trail[Len(trail)].children, {"controller_plugin", "kin_sim"})
    /\ ( /\ Len(trail) = 2
         /\ trail[1].op = "remove_qp_controller"
         /\ trail[1].controller_active
         /\ trail[1].in_projection # "unset"
         /\ trail[2].op = "add_qp_controller" ) =>
          children = trail[1].children

-----------------------------------------------------------------------------
(* Properties of the control cycle (checked under SpecCycle) *)

\* C25: right after a CleanUp.initialise time is 0 and the cycle counter is 1, and
\* from the first cleanup on the cycle counter is 1 plus the number of
\* ControlCycleCounter.update calls since the last cleanup.
C25_EpisodeReset ==
    /\ cycle_op \in {"cleanup", "cleanup_ros"} =>
          time = 0 /\ control_cycle_counter = 1
    /\ op \in {"cleanup", "cleanup_ros"} =>
          control_cycle_counter = 1 + counter_runs

-----------------------------------------------------------------------------
(* Properties of the odometry mailbox (checked under SpecOdometry) *)

\* C26: the mailbox never holds more than one message, the message in it is the one
\* delivered last, every message update takes is the last one delivered at that
\* time, and update never takes a message older than one it took before.
C26_LatestValueWins ==
    /\ Len(lock) <= 1
    /\ lock # <<>> => lock[1] = delivered
    /\ \A i \in 1..Len(reads) : reads[i].msg = reads[i].delivered
    /\ \A i \in 1..Len(reads) : \A j \in 1..(i - 1) : reads[j].msg < reads[i].msg
    /\ joint_transform = IF reads = <<>> THEN 0 ELSE reads[Len(reads)].msg

\* update took the first and the third message, the second was overwritten unread
C26_Witness ==
    /\ Len(reads) = 2
    /\ reads[1].msg = 1
    /\ reads[2].msg = 3

\* C27: update never waits: with no new message in the mailbox it returns at once
\* and leaves the joint transform as it was.
C27_NeverBlocks == update_pc # "get"

-----------------------------------------------------------------------------
(* Properties of the action server handler (checked under SpecServer) *)

\* goal g was taken by accept_goal
Accepted(g) == \E i \in 1..Len(accepted) : accepted[i] = g

\* C28: for every goal handed to execute_cb and accepted, at most one send_* call
\* delivers a result, and once execute_cb has returned exactly one has; the
\* message it returned is the result of that goal and of no other.
C28_OneTerminalResult ==
    \A g \in Goals :
        Accepted(g) =>
            /\ sent[g] <= 1
            /\ returned[g] # 0 => returned[g] = g /\ sent[g] = 1

\* C29: a checkpoint that finds a cancel request pending and the fault slot
\* empty stores a PreemptedException and ends with SUCCESS, which cuts the tick
\* short; a PreemptedException is stored at most once.
C29_CancelCheckpoint ==
    /\ (gc_status # "none" /\ gc_pre.cancel /\ gc_pre.exception = "None") =>
           exception = "PreemptedException" /\ gc_status = "SUCCESS"
    /\ preempted_stores <= 1

\* C30: a checkpoint that finds a stage's exception in the fault slot ends with
\* SUCCESS and leaves that exception in the slot, cancel request or not.
C30_FaultKept ==
    (gc_status # "none" /\ gc_pre.exception = "Fault") =>
        gc_status = "SUCCESS" /\ exception = "Fault"

-----------------------------------------------------------------------------
(* Further properties of the control loop (checked under SpecLoop) *)

\* every occurrence of the stage lies behind the controller and before the
\* cycle counter
BetweenControllerAndCounter(stage) ==
    \A i \in 1..Len(children) :
        children[i] = stage =>
            /\ IndexOf(children, "controller_plugin") # 0
            /\ IndexOf(children, "controller_plugin") < i
            /\ i < IndexOf(children, "ControlCycleCounter")

\* C31: with the controller active, in either mode and with or without log_traj,
\* the mode's time source and its kinematic integrator run after the controller
\* stage and before the cycle counter.
C31_KinematicUpdatePosition ==
    /\ (controller_active /\ in_projection = "True") =>
           BetweenControllerAndCounter("time") /\ BetweenControllerAndCounter("kin_sim")
    /\ (controller_active /\ in_projection = "False") =>
           /\ BetweenControllerAndCounter("ros_time")
           /\ BetweenControllerAndCounter("real_kin_sim")

\* how often the stage occurs in the stage list
Occurrences(stage) == Cardinality({i \in 1..Len(children) : children[i] = stage})

\* C34: after any sequence of mode switches, controller toggles and
\* add_evaluate_debug_expressions calls no stage occurs more than once in the
\* stage list, the debug-expression stage included.
C34_NoDuplicateStages ==
    \A stage \in StagesOf(children) : Occurrences(stage) <= 1

\* C35: the controller stage is in the stage list exactly when controller_active
\* holds, and while it does not hold no KinSimPlugin is in the list.
C35_ControllerActiveConsistent ==
    /\ controller_active <=> Occurrences("controller_plugin") > 0
    /\ ~controller_active => Occurrences("kin_sim") = 0

-----------------------------------------------------------------------------
(* Further properties of the relaxed solve (checked under SpecQP) *)

\* the variables whose value lies outside the original interval [lb, ub]
OutsideOriginalBounds(xdot) ==
    {i \in DOMAIN xdot :
        \/ xdot[i] > OriginalBounds.ub[i]
        \/ xdot[i] < 0 - OriginalBounds.nlb[i]}

\* C32: after a relaxed solve that the budget allows and the backend answers, the
\* variables whose weight was multiplied by retry_weight_factor are exactly those
\* whose relaxed value lies outside the original bounds.
C32_ReweightViolators ==
    ( /\ solve_calls = <<FALSE, TRUE>>
      /\ retries_before > 1
      /\ relaxed_backend.cls = "None" ) =>
        Reweighted(second_attempt, relaxed_backend.value)
            = OutsideOriginalBounds(relaxed_backend.value)

\* C36: the retry counter never exceeds the budget the formatter started with,
\* and once a solve_and_retry call has run out of budget, every later call whose
\* first attempt raises an infeasibility ends with the
\* HardConstraintsViolatedException of line 181, raised before any relaxed
\* solver_call.
C36_BudgetNotReplenished ==
    /\ retries_with_relaxed_constraints <= budget
    /\ (exhausted /\ solve_calls # <<>> /\ IsInfeasibleException(first_attempt.cls)) =>
           /\ solve_calls = <<FALSE, TRUE>>
           /\ OutOfRetries(second_attempt)
           /\ qp_result = second_attempt

\* a call made after the budget had run out ran out of budget again
C36_Witness ==
    /\ exhausted
    /\ budget = 2
    /\ first_attempt.cls = "InfeasibleException"
    /\ OutOfRetries(qp_result)

-----------------------------------------------------------------------------
(* Further properties of the formatter (checked under SpecFilter) *)

\* the row slice b starts where the row slice a ends
Follows(a, b) == a[1] <= a[2] /\ b[1] = a[2] /\ b[1] <= b[2]

\* C33: for every problem size the row slices of __init__ follow one another
\* without gap or overlap in the order weights, E, -I, -A, I, A and end at the
\* last row; the equality-slack columns follow the non-slack columns, the
\* inequality-slack columns follow them, the last column holds the right-hand
\* sides, and the matrix filled through the slices is the block matrix of that
\* layout.
C33_CombinedLayout ==
    weights # <<>> =>
        LET sl == FormatterSlices(shape)
            n == num_free_variable_constraints(shape)
            p == Problem(shape, weights)
        IN  /\ Follows(<<0, 1>>, sl.E_rows)
            /\ Follows(sl.E_rows, sl.nI_rows)
            /\ Follows(sl.nI_rows, sl.nA_rows)
            /\ Follows(sl.nA_rows, sl.I_rows)
            /\ Follows(sl.I_rows, sl.A_rows)
            /\ sl.A_rows[2] = sl.num_rows
            /\ sl.E_rows[2] - sl.E_rows[1] = shape.num_eq_constraints
            /\ sl.nI_rows[2] - sl.nI_rows[1] = n
            /\ sl.nA_rows[2] - sl.nA_rows[1] = shape.num_neq_constraints
            /\ sl.I_rows[2] - sl.I_rows[1] = n
            /\ sl.A_rows[2] - sl.A_rows[1] = shape.num_neq_constraints
            /\ sl.E_cols = <<0, shape.num_non_slack_variables>>
            /\ sl.nA_cols = sl.E_cols
            /\ Follows(sl.E_cols, sl.E_slack_cols)
            /\ Follows(sl.E_slack_cols, sl.nA_slack_cols)
            /\ sl.E_slack_cols[2] - sl.E_slack_cols[1] = shape.num_eq_slack_variables
            /\ sl.nA_slack_cols[2] - sl.nA_slack_cols[1] = shape.num_neq_slack_variables
            /\ sl.nA_slack_cols[2] = sl.num_columns - 1
            /\ CombinedBySlices(shape, p) = CombinedProblemData(shape, p)

\* a problem with equality and inequality rows and both kinds of slack variables
C33_Witness ==
    /\ weights # <<>>
    /\ shape.num_eq_constraints > shape.num_eq_slack_variables
    /\ shape.num_neq_constraints > shape.num_neq_slack_variables
    /\ shape.num_eq_slack_variables > 0
    /\ shape.num_neq_slack_variables > 0

\* C37: after update_filters and apply_filters every row of E and of the stacked
\* block has as many columns as there are filtered weights, E has as many rows as
\* bE has entries, the stacked block has as many rows as its right-hand side, and
\* that number is even: row k of the lower half is the negation of row k of the
\* upper half.
C37_FilteredDimensions ==
    filtered # NoData =>
        LET half == Len(filtered.nI_nA_I_A) \div 2
        IN  /\ Len(filtered.g) = Len(filtered.weights)
            /\ \A r \in 1..Len(filtered.E) :
                  Len(filtered.E[r]) = Len(filtered.weights)
            /\ \A r \in 1..Len(filtered.nI_nA_I_A) :
                  Len(filtered.nI_nA_I_A[r]) = Len(filtered.weights)
            /\ Len(filtered.E) = Len(filtered.bE)
            /\ Len(filtered.nI_nA_I_A) = Len(filtered.nlb_nlbA_ub_ubA)
            /\ Len(filtered.nI_nA_I_A) = 2 * half
            /\ half = Cardinality({r \in 1..Len(bA_filter_half) : bA_filter_half[r]})
            /\ \A k \in 1..half :
                  filtered.nI_nA_I_A[k] = Neg(filtered.nI_nA_I_A[half + k])

\* a solve whose filters dropped a column and rows of the stacked block
C37_Witness ==
    /\ filtered # NoData
    /\ Len(filtered.weights) < Len(weights)
    /\ Len(filtered.weights) > 0
    /\ Len(filtered.nI_nA_I_A) < 2 * Len(bA_filter_half)
    /\ Len(filtered.E) > 0

-----------------------------------------------------------------------------
(* Further properties of registration (checked under SpecMonitors) *)

\* C38: a parse_monitors call that raises leaves the monitor list as it was
\* before the call; no monitor of an earlier record of the batch stays registered.
C38_FailedBatchAtomic ==
    [][(ParseMonitors /\ raised'.cls # "None") => monitors' = monitors]_vars

-----------------------------------------------------------------------------
(* Properties of the closed-loop integration step (checked under SpecKinSim) *)

Nondecreasing(seq) == \A i \in 1..(Len(seq) - 1) : seq[i] <= seq[i + 1]

RECURSIVE Sum(_)
Sum(seq) == IF seq = <<>> THEN 0 ELSE Head(seq) + Sum(Tail(seq))

\* the ticks behind the first on which the time was above zero
SteppingTicks == {k \in 2..Len(observed) : observed[k] > 0}

\* the last tick on which update made no world.update_state call
LastIdleTick ==
    CHOOSE k \in 1..Len(observed) :
        /\ k \notin SteppingTicks
        /\ \A j \in (k + 1)..Len(observed) : j \in SteppingTicks

\* update made no step on the first tick after initialise nor on a tick with
\* time <= 0, and one step with dt = time - time of the tick before on every other
StepPerTick ==
    /\ Len(dts) = Cardinality(SteppingTicks)
    /\ \A k \in SteppingTicks :
          dts[Cardinality({j \in SteppingTicks : j <= k})] = observed[k] - observed[k - 1]
    /\ last_time = IF observed = <<>> THEN <<>> ELSE <<observed[Len(observed)]>>

\* C39 as stated: the step rule holds and, with non-decreasing time, every dt is
\* >= 0 and the dts sum to the latest time minus the first time observed.
C39_Original ==
    /\ StepPerTick
    /\ (observed # <<>> /\ Nondecreasing(observed)) =>
          /\ \A i \in 1..Len(dts) : dts[i] >= 0
          /\ Sum(dts) = observed[Len(observed)] - observed[1]

\* C39 amended: the step rule holds and, with non-decreasing time, every dt is
\* >= 0 and the dts sum to the latest time minus the time of the last tick that
\* made no step (the first tick, or the last tick with time <= 0).
C39_IntegrationStep ==
    /\ StepPerTick
    /\ (observed # <<>> /\ Nondecreasing(observed)) =>
          /\ \A i \in 1..Len(dts) : dts[i] >= 0
          /\ Sum(dts) = observed[Len(observed)] - observed[LastIdleTick]

\* two ticks below zero and two steps after them
C39_Witness ==
    /\ Len(observed) = 4
    /\ Nondecreasing(observed)
    /\ observed[1] < observed[2]
    /\ observed[2] < 0
    /\ Len(dts) = 2
    /\ dts[1] > 0
    /\ dts[2] > 0

-----------------------------------------------------------------------------
(* Goal ownership in the action server handler (checked under SpecServer) *)

\* C40: from accept_goal until the result of the accepted goal is handed to
\* result_queue, goal_handle (and goal_msg, cleared with it) refers to that goal,
\* and a result the tree has stored for it is still stored: the clean-up of an
\* earlier execute_cb call clears nothing of a goal accepted afterwards.
C40_NoCrossGoalClobbering ==
    /\ tree_pc \in {"working", "result_set", "sending"} => goal_handle = CurrentGoal
    /\ tree_pc \in {"result_set", "sending"} => result_msg = CurrentGoal

=============================================================================
